---- MODULE Spec2Model ----
(***************************************************************************)
(* Persistent generation-session manager of coaipro.                       *)
(*                                                                         *)
(* The model follows manager/session manager (SessionManager, ChatSession) *)
(* and manager/persistent_chat.go (StartPersistentChat, the background     *)
(* pipeline processPersistentChatSession, CancelPersistentChat).           *)
(* Every action is one atomic step of the Go code: a critical section of   *)
(* sm.mutex, an unlocked field write, or a call of an external             *)
(* collaborator.                                                           *)
(***************************************************************************)
EXTENDS Integers, Sequences, FiniteSets, TLC

(* ---------------------------- bounds ----------------------------------- *)
MaxSessions == 1
MaxChunks == 1
\* ChatSession objects rebuilt from the cache
MaxLoads == 2
\* ProgressStreamHandler values
MaxObservers == 2
\* heartbeats of one push stream
MaxPings == 1
MaxTicks == 3

(* ------------------------- program constants --------------------------- *)
\* capacity of ProgressStream and ResultStream
QueueCap == 100
\* time.Hour in minutes, the unit of the clock: the staleness window
Hour == 60
\* the process starts two hours after the epoch of the clock
BootTime == 2 * Hour
\* the clock is read in steps of half an hour
TickStep == Hour \div 2

Users == {7}
Convs == {42}
Threads == {1, 2}
\* sessions of the two-session specification
MaxPairSessions == MaxSessions + 1
\* ChatSession objects: those built by CreateSession and those rebuilt from
\* the cache by loadSessionFromCache
MaxObjs == MaxPairSessions + MaxLoads
Objs == 1 .. MaxObjs
\* the id of the session found in the cache at startup; CreateSession draws
\* fresh uuids, modelled by the allocation index of the object
RecoveredID == MaxObjs + 1
Ids == Objs \cup {RecoveredID}
Observers == 1 .. MaxObservers
ChunkContents == {"", "a"}

SessionPending == "pending"
SessionProcessing == "processing"
SessionCompleted == "completed"
SessionError == "error"
SessionCancelled == "cancelled"

ActiveStatuses == {SessionPending, SessionProcessing}
TerminalStatuses == {SessionCompleted, SessionError, SessionCancelled}

Nil == -1

\* progress fragments emitted by the pipeline as phase labels
LabelInit == "init"
LabelConnecting == "connecting"
LabelThinking == "thinking"
LabelDone == "done"
DefaultResult == "empty"

\* messages handed to FailSession
MsgPermission == "permission denied"
MsgService == "AI service error"
MsgRequest == "request failed"
MsgInternal == "Internal error"
\* the error recoverSessions gives a stale snapshot
MsgExpired == "Session expired during recovery"

VARIABLES
    heap,       \* ChatSession objects, by allocation index
    registry,   \* sm.sessions: session id -> object (0 = absent)
    nextObj,    \* number of ChatSession objects allocated so far
    pipe,       \* the background goroutine of each session
    thr,        \* request-handler goroutines (start / cancel in progress)
    collected,  \* calls of CollectQuotaWithDB per session
    reverted,   \* calls of auth.RevertSubscriptionUsage per session
    store,      \* conversation store: assistant messages per conversation
    now,        \* time.Now()
    crashed,    \* an unrecovered panic terminated the process
    obs,        \* ProgressStreamHandler values and the handlers driving them
    cacheClient,\* sm.cache # nil
    cache,      \* Redis: session id -> stored snapshot
    saves,      \* `go sm.saveSessionToCache(session)` goroutines not yet run
    marshalled, \* documents of save goroutines between json.Marshal and Set
    keys,       \* recoverSessions: keys of the startup scan not yet visited
    once        \* sessionManagerOnce, sessionManager and their callers

\* the durable side
durable == <<cacheClient, cache, saves, marshalled, keys>>

vars == <<heap, registry, nextObj, pipe, thr, collected, reverted, store,
          now, crashed, obs, durable, once>>

(* ------------------------------ records -------------------------------- *)
NoSession ==
    [ID |-> 0, UserID |-> 0, ConversationID |-> 0, Status |-> "none",
     Progress |-> "", TotalProgress |-> <<>>, LastActivity |-> 0,
     CreatedAt |-> 0, CompletedAt |-> Nil, Result |-> <<>>, Error |-> "",
     Quota |-> 0, CtxCancelled |-> FALSE, CtxExpired |-> FALSE,
     ProgressStream |-> "nil", ProgressLen |-> 0,
     ResultStream |-> "nil", ResultLen |-> 0]

NoPipe ==
    [pc |-> "none", plan |-> FALSE, hit |-> FALSE, buffer |-> <<>>, n |-> 0,
     cur |-> "", msg |-> "", aborted |-> FALSE]

Idle == [op |-> "idle", user |-> 0, conv |-> 0, sid |-> 0]

\* a ProgressStreamHandler (SessionID, Session, LastSent) and the position of
\* the code using it: tp is the local totalProgress of GetNewProgress, out
\* the string its last call returned, events what streamSessionProgress
\* wrote to the connection
NoObserver ==
    [pc |-> "none", SessionID |-> 0, Session |-> 0, LastSent |-> 0,
     tp |-> <<>>, out |-> <<>>, events |-> <<>>, pings |-> 0]

\* the JSON document of saveSessionToCache; Status "none": key absent
NoSnapshot ==
    [ID |-> 0, UserID |-> 0, ConversationID |-> 0, Status |-> "none",
     Progress |-> "", TotalProgress |-> <<>>, LastActivity |-> 0,
     CreatedAt |-> 0, CompletedAt |-> Nil, Result |-> <<>>, Error |-> "",
     Quota |-> 0]

IsActive(s) == s.Status \in ActiveStatuses
IsTerminal(s) == s.Status \in TerminalStatuses

\* <-session.Context.Done(): cancel func called, or the 15-minute timer fired
CtxDone(s) == s.CtxCancelled \/ s.CtxExpired

\* Context, Cancel and the two channels are created together (CreateSession
\* lines 125-128, loadSessionFromCache lines 382-388) or are all nil
HasRuntime(s) == s.ProgressStream # "nil"

(* --------------------------- SessionManager ---------------------------- *)
\* sm.sessions[sessionID] lookup
Exists(sid) == sid \in DOMAIN registry /\ registry[sid] # 0

\* non-blocking `select { case ch <- v: default: }`: a send on a closed
\* channel panics, a nil channel is never ready, a full channel is skipped
SendPanics(ch) == ch = "closed"
\* a send that appends to the queue whatever its length
SendLenUnbounded(ch, len) == IF ch = "open" THEN len + 1 ELSE len
SendLen(ch, len) == IF ch = "open" /\ len < QueueCap THEN len + 1 ELSE len

\* close(ch): panics on a closed or nil channel
ClosePanics(ch) == ch # "open"

\* an update that keeps only the latest fragment in total_progress, as it
\* does in progress
UpdateSessionProgressOverwrite(h, sid, progress) ==
    IF ~Exists(sid) THEN [heap |-> h, panic |-> FALSE]
    ELSE LET o == registry[sid]
             s == h[o]
             s1 == [s EXCEPT !.Progress = progress,
                             !.TotalProgress = <<progress>>,
                             !.LastActivity = now]
         IN IF SendPanics(s.ProgressStream)
            THEN [heap |-> [h EXCEPT ![o] = s1], panic |-> TRUE]
            ELSE [heap |-> [h EXCEPT ![o] =
                       [s1 EXCEPT !.ProgressLen =
                            SendLen(s.ProgressStream, s.ProgressLen)]],
                  panic |-> FALSE]

\* Each registry operation yields the new heap and whether it panicked;
\* the assignments made before the panicking statement are kept.
UpdateSessionProgress(h, sid, progress) ==
    IF ~Exists(sid) THEN [heap |-> h, panic |-> FALSE]
    ELSE LET o == registry[sid]
             s == h[o]
             s1 == [s EXCEPT !.Progress = progress,
                             !.TotalProgress = Append(@, progress),
                             !.LastActivity = now]
         IN IF SendPanics(s.ProgressStream)
            THEN [heap |-> [h EXCEPT ![o] = s1], panic |-> TRUE]
            ELSE [heap |-> [h EXCEPT ![o] =
                       [s1 EXCEPT !.ProgressLen =
                            SendLen(s.ProgressStream, s.ProgressLen)]],
                  panic |-> FALSE]

\* close(session.ProgressStream); close(session.ResultStream)
CloseStreams(s) ==
    IF ClosePanics(s.ProgressStream) THEN [s |-> s, panic |-> TRUE]
    ELSE IF ClosePanics(s.ResultStream)
         THEN [s |-> [s EXCEPT !.ProgressStream = "closed"], panic |-> TRUE]
         ELSE [s |-> [s EXCEPT !.ProgressStream = "closed",
                               !.ResultStream = "closed"],
               panic |-> FALSE]

CompleteSession(h, sid, result, quota) ==
    IF ~Exists(sid) THEN [heap |-> h, panic |-> FALSE]
    ELSE LET o == registry[sid]
             s1 == [h[o] EXCEPT !.Status = SessionCompleted,
                                !.Result = result,
                                !.Quota = quota,
                                !.CompletedAt = now,
                                !.LastActivity = now]
             c == CloseStreams(s1)
         IN [heap |-> [h EXCEPT ![o] = c.s], panic |-> c.panic]

FailSession(h, sid, errorMsg) ==
    IF ~Exists(sid) THEN [heap |-> h, panic |-> FALSE]
    ELSE LET o == registry[sid]
             s1 == [h[o] EXCEPT !.Status = SessionError,
                                !.Error = errorMsg,
                                !.CompletedAt = now,
                                !.LastActivity = now]
             c == CloseStreams(s1)
         IN [heap |-> [h EXCEPT ![o] = c.s], panic |-> c.panic]

CancelSession(h, sid) ==
    IF ~Exists(sid) THEN [heap |-> h, panic |-> FALSE]
    ELSE LET o == registry[sid]
             s1 == [h[o] EXCEPT !.Status = SessionCancelled,
                                !.CompletedAt = now,
                                !.LastActivity = now,
                                !.CtxCancelled = TRUE]
             c == CloseStreams(s1)
         IN [heap |-> [h EXCEPT ![o] = c.s], panic |-> c.panic]

\* `go sm.saveSessionToCache(session)`, the last statement of the four
\* operations above: not reached when the operation panicked.  Without a
\* cache client the goroutine returns at once (line 285) and is not tracked.
Spawn(sid, r) ==
    IF cacheClient /\ Exists(sid) /\ ~r.panic
    THEN [saves EXCEPT ![registry[sid]] = @ + 1]
    ELSE saves

\* GetConversationSession: the objects an iteration of sm.sessions may return
ConversationSessions(userID, conversationID) ==
    {o \in Objs : /\ \E sid \in DOMAIN registry : registry[sid] = o
                  /\ heap[o].UserID = userID
                  /\ heap[o].ConversationID = conversationID
                  /\ IsActive(heap[o])}

\* a JSON member tagged omitempty: absent from the document when the field
\* has its zero value
OmitEmpty(name, value, zero) ==
    IF value = zero THEN [n \in {} |-> value] ELSE name :> value

\* a member of a decoded document: the zero value when it is absent
Member(d, name, zero) == IF name \in DOMAIN d THEN d[name] ELSE zero

\* saveSessionToCache, lines 290-323: the JSON document of a ChatSession.
\* It has the persisted fields only; completed_at (a nil pointer) and error
\* (an empty string) are tagged omitempty.
SessionData(s) ==
    [ID |-> s.ID, UserID |-> s.UserID, ConversationID |-> s.ConversationID,
     Status |-> s.Status, Progress |-> s.Progress,
     TotalProgress |-> s.TotalProgress, LastActivity |-> s.LastActivity,
     CreatedAt |-> s.CreatedAt, Result |-> s.Result, Quota |-> s.Quota]
        @@ OmitEmpty("CompletedAt", s.CompletedAt, Nil)
        @@ OmitEmpty("Error", s.Error, "")

\* saveSessionToCache: cache.Set under the key of the session id; ok is
\* whether Redis accepted the write (the error is only logged or dropped)
saveSessionToCache(c, s, ok) ==
    IF cacheClient /\ ok THEN [c EXCEPT ![s.ID] = SessionData(s)] ELSE c

\* a load that builds a context and channels for every document
loadSessionFromCacheRuntime(d) ==
    [ID |-> d.ID, UserID |-> d.UserID, ConversationID |-> d.ConversationID,
     Status |-> d.Status, Progress |-> d.Progress,
     TotalProgress |-> d.TotalProgress, LastActivity |-> d.LastActivity,
     CreatedAt |-> d.CreatedAt,
     CompletedAt |-> Member(d, "CompletedAt", Nil),
     Result |-> d.Result, Error |-> Member(d, "Error", ""), Quota |-> d.Quota,
     CtxCancelled |-> FALSE, CtxExpired |-> FALSE,
     ProgressStream |-> "open", ProgressLen |-> 0,
     ResultStream |-> "open", ResultLen |-> 0]

\* loadSessionFromCache, lines 339-388: the document is decoded and the
\* ChatSession rebuilt from it; an unfinished one gets a new context and new
\* channels
loadSessionFromCache(d) ==
    [ID |-> d.ID, UserID |-> d.UserID, ConversationID |-> d.ConversationID,
     Status |-> d.Status, Progress |-> d.Progress,
     TotalProgress |-> d.TotalProgress, LastActivity |-> d.LastActivity,
     CreatedAt |-> d.CreatedAt,
     CompletedAt |-> Member(d, "CompletedAt", Nil),
     Result |-> d.Result, Error |-> Member(d, "Error", ""), Quota |-> d.Quota,
     CtxCancelled |-> FALSE, CtxExpired |-> FALSE,
     ProgressStream |-> IF d.Status \in ActiveStatuses THEN "open" ELSE "nil",
     ProgressLen |-> 0,
     ResultStream |-> IF d.Status \in ActiveStatuses THEN "open" ELSE "nil",
     ResultLen |-> 0]

\* the ChatSession built by CreateSession under a fresh uuid
NewSession(sid, userID, conversationID) ==
    [NoSession EXCEPT !.ID = sid, !.UserID = userID,
                      !.ConversationID = conversationID,
                      !.Status = SessionPending,
                      !.LastActivity = now, !.CreatedAt = now,
                      !.ProgressStream = "open", !.ResultStream = "open"]

(* ---------------------------- the singleton --------------------------- *)
\* sessionManagerOnce and sessionManager (part_002:61-64) and the callers of
\* GetSessionManager and InitSessionManager.  once has
\*   done, running   the flag of the sync.Once; its mutex is held by a caller
\*                   that runs the initialiser
\*   instances       SessionManager values constructed so far
\*   sessionManager  the global pointer: the instance it names, 0 for nil
\*   recoveries      calls of recoverSessions
\*   call[t]         caller t: pc, which function it called (kind), whether
\*                   it passed a cache client, and the instance it got back
NoCall == [pc |-> "idle", kind |-> "none", cache |-> FALSE, got |-> 0]

\* no caller yet
Unconstructed ==
    [done |-> FALSE, running |-> FALSE, instances |-> 0, sessionManager |-> 0,
     recoveries |-> 0, call |-> [t \in Threads |-> NoCall]]

\* after the first call of GetSessionManager has returned
Constructed ==
    [done |-> TRUE, running |-> FALSE, instances |-> 1, sessionManager |-> 1,
     recoveries |-> 1, call |-> [t \in Threads |-> NoCall]]

\* inside the first call of GetSessionManager, in recoverSessions
Recovering == [Constructed EXCEPT !.done = FALSE, !.running = TRUE]

\* a caller enters GetSessionManager(db, cache) (kind "get") or
\* InitSessionManager() (kind "init")
OnceCall(t, kind, c) ==
    /\ ~crashed
    /\ once.call[t].pc = "idle"
    /\ once' = [once EXCEPT !.call[t] =
                   [pc |-> "do", kind |-> kind, cache |-> c, got |-> 0]]
    /\ UNCHANGED <<heap, registry, nextObj, pipe, thr, collected, reverted,
                   store, now, crashed, obs, durable>>

\* a Do that reads the flag and runs the initialiser without the mutex
OnceDoRacy(t) ==
    /\ ~crashed
    /\ once.call[t].pc = "do"
    /\ IF once.done
       THEN /\ once' = [once EXCEPT !.call[t].pc = "after"]
            /\ UNCHANGED cacheClient
       ELSE /\ once' = [once EXCEPT !.running = TRUE,
                                    !.instances = @ + 1,
                                    !.sessionManager = once.instances + 1,
                                    !.call[t].pc = "f"]
            /\ cacheClient' = (once.call[t].kind = "get" /\ once.call[t].cache)
    /\ UNCHANGED <<heap, registry, nextObj, pipe, thr, collected, reverted,
                   store, now, crashed, obs, cache, saves, marshalled, keys>>

\* sessionManagerOnce.Do (lines 68 and 89).  A caller that finds the flag set
\* returns; otherwise it waits for the mutex of the Once, and the one that
\* gets it with the flag still clear runs the initialiser, which begins by
\* constructing the SessionManager (lines 69-74 or 90-94).
OnceDo(t) ==
    /\ ~crashed
    /\ once.call[t].pc = "do"
    /\ IF once.done
       THEN /\ once' = [once EXCEPT !.call[t].pc = "after"]
            /\ UNCHANGED cacheClient
       ELSE /\ ~once.running
            /\ once' = [once EXCEPT !.running = TRUE,
                                    !.instances = @ + 1,
                                    !.sessionManager = once.instances + 1,
                                    !.call[t].pc = "f"]
            /\ cacheClient' = (once.call[t].kind = "get" /\ once.call[t].cache)
    /\ UNCHANGED <<heap, registry, nextObj, pipe, thr, collected, reverted,
                   store, now, crashed, obs, cache, saves, marshalled, keys>>

\* the rest of the initialiser: the cleanup goroutine is started and, in
\* GetSessionManager, recoverSessions is called (line 100); the cache is
\* empty, so the scan finds nothing.  Then the flag is set.
OnceFinish(t) ==
    /\ ~crashed
    /\ once.call[t].pc = "f"
    /\ once' = [once EXCEPT !.done = TRUE, !.running = FALSE,
                            !.recoveries = IF once.call[t].kind = "get"
                                           THEN @ + 1 ELSE @,
                            !.call[t].pc = "after"]
    /\ UNCHANGED <<heap, registry, nextObj, pipe, thr, collected, reverted,
                   store, now, crashed, obs, durable>>

\* `return sessionManager` (line 102); InitSessionManager returns nothing
OnceReturn(t) ==
    /\ ~crashed
    /\ once.call[t].pc = "after"
    /\ once' = [once EXCEPT !.call[t].pc = "idle",
                            !.call[t].got = IF once.call[t].kind = "get"
                                            THEN once.sessionManager ELSE 0]
    /\ UNCHANGED <<heap, registry, nextObj, pipe, thr, collected, reverted,
                   store, now, crashed, obs, durable>>

\* the process before anything called the manager
InitSingleton ==
    /\ heap = [o \in Objs |-> NoSession]
    /\ registry = [sid \in Ids |-> 0]
    /\ nextObj = 0
    /\ pipe = [o \in Objs |-> NoPipe]
    /\ thr = [t \in Threads |-> Idle]
    /\ collected = [o \in Objs |-> 0]
    /\ reverted = [o \in Objs |-> 0]
    /\ store = [c \in Convs |-> <<>>]
    /\ now = 0
    /\ crashed = FALSE
    /\ obs = [k \in Observers |-> NoObserver]
    /\ cacheClient = FALSE
    /\ cache = [sid \in Ids |-> NoSnapshot]
    /\ saves = [o \in Objs |-> 0]
    /\ marshalled = {}
    /\ keys = {}
    /\ once = Unconstructed

\* concurrent callers of the two entry points
NextSingleton ==
    \/ \E t \in Threads, kind \in {"get", "init"}, c \in BOOLEAN :
          OnceCall(t, kind, c)
    \/ \E t \in Threads : OnceDo(t)
    \/ \E t \in Threads : OnceFinish(t)
    \/ \E t \in Threads : OnceReturn(t)

SpecSingleton == InitSingleton /\ [][NextSingleton]_vars

(* ------------------------------- Init ---------------------------------- *)
Init ==
    /\ heap = [o \in Objs |-> NoSession]
    /\ registry = [sid \in Ids |-> 0]
    /\ nextObj = 0
    /\ pipe = [o \in Objs |-> NoPipe]
    /\ thr = [t \in Threads |-> Idle]
    /\ collected = [o \in Objs |-> 0]
    /\ reverted = [o \in Objs |-> 0]
    /\ store = [c \in Convs |-> <<>>]
    /\ now = 0
    /\ crashed = FALSE
    /\ obs = [k \in Observers |-> NoObserver]
    /\ cacheClient = FALSE
    /\ cache = [sid \in Ids |-> NoSnapshot]
    /\ saves = [o \in Objs |-> 0]
    /\ marshalled = {}
    /\ keys = {}
    /\ once = Constructed

(* ------------------------ request handlers ----------------------------- *)
\* sessions created so far or about to be created by a handler
Created == Cardinality({o \in Objs : pipe[o].pc # "none"})
Started == Created + Cardinality({t \in Threads : thr[t].op = "start"})

\* StartPersistentChat, lines 41-46: the duplicate check under RLock;
\* limit caps the number of sessions a behaviour creates
StartCheck(t, u, c, limit) ==
    /\ ~crashed
    /\ keys = {}
    /\ thr[t].op = "idle"
    /\ IF ConversationSessions(u, c) # {}
       THEN UNCHANGED thr    \* returns the existing session and an error
       ELSE /\ Started < limit
            /\ thr' = [thr EXCEPT ![t] =
                          [op |-> "start", user |-> u, conv |-> c, sid |-> 0]]
    /\ UNCHANGED <<heap, registry, nextObj, pipe, collected, reverted, store,
                   now, crashed,
                   obs, durable, once>>

\* a CreateSession that fails, and registers nothing, when the snapshot of
\* the new session cannot be written
StartCreateTransactional(t) ==
    /\ ~crashed
    /\ thr[t].op = "start"
    /\ nextObj < MaxObjs
    /\ LET o == nextObj + 1
           session == NewSession(o, thr[t].user, thr[t].conv)
       IN \E ok \in (IF cacheClient THEN BOOLEAN ELSE {FALSE}) :
            IF ok
            THEN /\ nextObj' = o
                 /\ heap' = [heap EXCEPT ![o] = session]
                 /\ registry' = [registry EXCEPT ![o] = o]
                 /\ cache' = saveSessionToCache(cache, session, ok)
                 /\ pipe' = [pipe EXCEPT ![o] = [NoPipe EXCEPT !.pc = "spawned"]]
            ELSE UNCHANGED <<nextObj, heap, registry, cache, pipe>>
    /\ thr' = [thr EXCEPT ![t] = Idle]
    /\ UNCHANGED <<collected, reverted, store, now, crashed,
                   obs, cacheClient, once, marshalled, saves, keys>>

\* StartPersistentChat, lines 49-68: CreateSession under Lock, then `go func`
StartCreate(t) ==
    /\ ~crashed
    /\ thr[t].op = "start"
    /\ nextObj < MaxObjs
    /\ LET o == nextObj + 1
           session == NewSession(o, thr[t].user, thr[t].conv)
       IN /\ nextObj' = o
          /\ heap' = [heap EXCEPT ![o] = session]
          /\ registry' = [registry EXCEPT ![o] = o]
          /\ \E ok \in (IF cacheClient THEN BOOLEAN ELSE {FALSE}) :
                cache' = saveSessionToCache(cache, session, ok)
          /\ pipe' = [pipe EXCEPT ![o] = [NoPipe EXCEPT !.pc = "spawned"]]
    /\ thr' = [thr EXCEPT ![t] = Idle]
    /\ UNCHANGED <<collected, reverted, store, now, crashed,
                   obs, cacheClient, once, marshalled, saves, keys>>

\* CancelPersistentChat, lines 192-200: GetSession and the status check
CancelCheck(t, sid) ==
    /\ ~crashed
    /\ keys = {}
    /\ thr[t].op = "idle"
    /\ IF ~Exists(sid)
       THEN UNCHANGED <<thr, heap>>    \* "session not found"
       ELSE LET o == registry[sid]
            IN /\ heap' = [heap EXCEPT ![o].LastActivity = now]
               /\ thr' = IF ~IsActive(heap[o])
                         THEN thr    \* "session cannot be cancelled"
                         ELSE [thr EXCEPT ![t] =
                                  [op |-> "cancel", user |-> 0, conv |-> 0,
                                   sid |-> sid]]
    /\ UNCHANGED <<registry, nextObj, pipe, collected, reverted, store, now,
                   crashed,
                   obs, durable, once>>

\* CancelPersistentChat, line 202: sm.CancelSession.  A panic raised here is
\* in a request handler; whether the web framework recovers it is not decided
\* by this code, so both outcomes are allowed.
CancelDo(t) ==
    /\ ~crashed
    /\ thr[t].op = "cancel"
    /\ LET r == CancelSession(heap, thr[t].sid)
       IN /\ heap' = r.heap
          /\ saves' = Spawn(thr[t].sid, r)
          /\ IF r.panic THEN crashed' \in BOOLEAN ELSE UNCHANGED crashed
    /\ thr' = [thr EXCEPT ![t] = Idle]
    /\ UNCHANGED <<registry, nextObj, pipe, collected, reverted, store, now,
                   obs, cacheClient, once, marshalled, cache, keys>>

(* ------------------------- chat and restart ---------------------------- *)
\* PersistentChatHandler (persistent_chat.go:320-373) called by ChatAPI for
\* a ChatType form (restart false) or a RestartType form (restart true).
\* thr[t].op is the position of the handler:
\*   reply      it returned the id in thr[t].sid, before buf.Send
\*   restart    before CancelPersistentChat(existingSession.ID) of line 336
\*   recancel   inside CancelPersistentChat, before sm.CancelSession
\*   prepare    before StartPersistentChat of line 366
\*   start      inside StartPersistentChat, before CreateSession
\* thr[t].sid keeps the id of the session the restart found.
HandlerBusy ==
    Cardinality({t \in Threads :
                    thr[t].op \in {"restart", "recancel", "prepare", "start"}})

\* lines 324-341: GetConversationSession and the branch on restart
PersistentChatHandler(t, u, c, restart, limit) ==
    /\ ~crashed
    /\ keys = {}
    /\ thr[t].op = "idle"
    /\ IF ConversationSessions(u, c) # {}
       THEN \E o \in ConversationSessions(u, c) :
               thr' = [thr EXCEPT ![t] =
                          [op |-> IF restart THEN "restart" ELSE "reply",
                           user |-> u, conv |-> c, sid |-> heap[o].ID]]
       ELSE thr' = [thr EXCEPT ![t] =
                       [op |-> "prepare", user |-> u, conv |-> c, sid |-> 0]]
    /\ thr'[t].op # "reply" => Created + HandlerBusy < limit
    /\ UNCHANGED <<heap, registry, nextObj, pipe, collected, reverted, store,
                   now, crashed, obs, durable, once>>

\* manager.go:96-101 and 118-123: the session id is sent to the client
ChatReply(t) ==
    /\ ~crashed
    /\ thr[t].op = "reply"
    /\ thr' = [thr EXCEPT ![t] = Idle]
    /\ UNCHANGED <<heap, registry, nextObj, pipe, collected, reverted, store,
                   now, crashed, obs, durable, once>>

\* line 336, CancelPersistentChat lines 192-200: GetSession and the status
\* check; the handler drops the error CancelPersistentChat returns
RestartCancelCheck(t) ==
    /\ ~crashed
    /\ thr[t].op = "restart"
    /\ heap' = IF Exists(thr[t].sid)
               THEN [heap EXCEPT ![registry[thr[t].sid]].LastActivity = now]
               ELSE heap
    /\ thr' = [thr EXCEPT ![t].op =
                  IF Exists(thr[t].sid) /\ IsActive(heap[registry[thr[t].sid]])
                  THEN "recancel" ELSE "prepare"]
    /\ UNCHANGED <<registry, nextObj, pipe, collected, reverted, store, now,
                   crashed, obs, durable, once>>

\* CancelPersistentChat, line 202: sm.CancelSession; a panic unwinds the
\* handler
RestartCancelDo(t) ==
    /\ ~crashed
    /\ thr[t].op = "recancel"
    /\ LET r == CancelSession(heap, thr[t].sid)
       IN /\ heap' = r.heap
          /\ saves' = Spawn(thr[t].sid, r)
          /\ IF r.panic
             THEN /\ crashed' \in BOOLEAN
                  /\ thr' = [thr EXCEPT ![t] = Idle]
             ELSE /\ UNCHANGED crashed
                  /\ thr' = [thr EXCEPT ![t].op = "prepare"]
    /\ UNCHANGED <<registry, nextObj, pipe, collected, reverted, store, now,
                   obs, cacheClient, once, marshalled, cache, keys>>

\* line 366, StartPersistentChat lines 41-46: the duplicate check.  When it
\* fails PersistentChatHandler returns the error and ChatAPI falls back to
\* ChatHandler, which starts no session.
HandlerStartCheck(t) ==
    /\ ~crashed
    /\ thr[t].op = "prepare"
    /\ thr' = [thr EXCEPT ![t] =
                  IF ConversationSessions(thr[t].user, thr[t].conv) # {}
                  THEN Idle
                  ELSE [thr[t] EXCEPT !.op = "start"]]
    /\ UNCHANGED <<heap, registry, nextObj, pipe, collected, reverted, store,
                   now, crashed, obs, durable, once>>

(* ----------------------------- cancel API ------------------------------ *)
\* cancelSession (part_004:99-151), the HTTP handler of the cancel route.
\* thr[t].op is its position, thr[t].user the authenticated caller:
\*   api        before CancelPersistentChat of line 138
\*   apido      inside CancelPersistentChat, before sm.CancelSession
\*   notfound   404 "session not found" is about to be written
\*   denied     403 "permission denied" is about to be written
\*   rejected   400 with the error of CancelPersistentChat
\*   cancelled  200 "session cancelled successfully"
\* a user who owns no session
Stranger == 8
Callers == Users \cup {Stranger}
Responses == {"notfound", "denied", "rejected", "cancelled"}

\* a cancel route that does not compare the caller with the owner
cancelSessionAnyCaller(t, caller, sid) ==
    /\ ~crashed
    /\ keys = {}
    /\ thr[t].op = "idle"
    /\ heap' = IF Exists(sid)
               THEN [heap EXCEPT ![registry[sid]].LastActivity = now]
               ELSE heap
    /\ thr' = [thr EXCEPT ![t] =
                  [op |-> IF ~Exists(sid) THEN "notfound" ELSE "api",
                   user |-> caller, conv |-> 0, sid |-> sid]]
    /\ UNCHANGED <<registry, nextObj, pipe, collected, reverted, store, now,
                   crashed, obs, durable, once>>

\* lines 119-136: sm.GetSession and the ownership check
cancelSession(t, caller, sid) ==
    /\ ~crashed
    /\ keys = {}
    /\ thr[t].op = "idle"
    /\ heap' = IF Exists(sid)
               THEN [heap EXCEPT ![registry[sid]].LastActivity = now]
               ELSE heap
    /\ thr' = [thr EXCEPT ![t] =
                  [op |-> IF ~Exists(sid) THEN "notfound"
                          ELSE IF heap[registry[sid]].UserID # caller
                          THEN "denied" ELSE "api",
                   user |-> caller, conv |-> 0, sid |-> sid]]
    /\ UNCHANGED <<registry, nextObj, pipe, collected, reverted, store, now,
                   crashed, obs, durable, once>>

\* line 138, CancelPersistentChat lines 192-200: GetSession and the status
\* check; both errors are answered with 400
ApiCancelCheck(t) ==
    /\ ~crashed
    /\ thr[t].op = "api"
    /\ heap' = IF Exists(thr[t].sid)
               THEN [heap EXCEPT ![registry[thr[t].sid]].LastActivity = now]
               ELSE heap
    /\ thr' = [thr EXCEPT ![t].op =
                  IF Exists(thr[t].sid) /\ IsActive(heap[registry[thr[t].sid]])
                  THEN "apido" ELSE "rejected"]
    /\ UNCHANGED <<registry, nextObj, pipe, collected, reverted, store, now,
                   crashed, obs, durable, once>>

\* CancelPersistentChat, line 202: sm.CancelSession; a panic unwinds the
\* handler before it answers
ApiCancelDo(t) ==
    /\ ~crashed
    /\ thr[t].op = "apido"
    /\ LET r == CancelSession(heap, thr[t].sid)
       IN /\ heap' = r.heap
          /\ saves' = Spawn(thr[t].sid, r)
          /\ IF r.panic
             THEN /\ crashed' \in BOOLEAN
                  /\ thr' = [thr EXCEPT ![t] = Idle]
             ELSE /\ UNCHANGED crashed
                  /\ thr' = [thr EXCEPT ![t].op = "cancelled"]
    /\ UNCHANGED <<registry, nextObj, pipe, collected, reverted, store, now,
                   obs, cacheClient, once, marshalled, cache, keys>>

\* c.JSON: the response is written and the handler returns
ApiRespond(t) ==
    /\ ~crashed
    /\ thr[t].op \in Responses
    /\ thr' = [thr EXCEPT ![t] = Idle]
    /\ UNCHANGED <<heap, registry, nextObj, pipe, collected, reverted, store,
                   now, crashed, obs, durable, once>>

(* ------------------------ background pipeline -------------------------- *)
\* The goroutine of StartPersistentChat (lines 55-66) running
\* processPersistentChatSession.  pipe[o].pc is its position:
\*   spawned  goroutine created, line 76 not yet executed
\*   p77 p86 p105   before the UpdateSessionProgress call of that line
\*   request  inside channel.NewChatRequestWithCache, between callbacks
\*   cb125 cb130    inside the chunk callback, before that line
\*   p158 p169 p174 p175 success path, before that line
\*   ret      processPersistentChatSession returned an error (line 63)
\*   recover  a panic is unwinding into the deferred handler (line 57)
\*   done     the goroutine has ended
\*   escaped  a panic left the goroutine: the process is terminated
\* msg is the error processPersistentChatSession returns, aborted whether
\* the chunk callback returned "session cancelled".
Goto(o, pc) == [pipe EXCEPT ![o].pc = pc]

\* the locals of a goroutine that is unwinding or has ended are dead
Unwind(o, pc) ==
    [pipe EXCEPT ![o] = [NoPipe EXCEPT !.pc = pc, !.msg = pipe[o].msg,
                                       !.aborted = pipe[o].aborted]]

\* a registry call made by the pipeline: continue at `next`, or unwind
AfterCall(o, r, next) ==
    /\ heap' = r.heap
    /\ pipe' = IF r.panic THEN Unwind(o, "recover") ELSE next
    /\ saves' = Spawn(heap[o].ID, r)

\* line 76: session.Status = SessionProcessing, written without the lock
PipeDispatch(o) ==
    /\ ~crashed
    /\ pipe[o].pc = "spawned"
    /\ heap' = [heap EXCEPT ![o].Status = SessionProcessing]
    /\ pipe' = Goto(o, "p77")
    /\ UNCHANGED <<registry, nextObj, thr, collected, reverted,
                   store, now, crashed,
                   obs, durable, once>>

\* lines 77-84: first phase label, then the permission / subscription check
PipeInit(o) ==
    /\ ~crashed
    /\ pipe[o].pc = "p77"
    /\ \E denied \in BOOLEAN :
         AfterCall(o, UpdateSessionProgress(heap, heap[o].ID, LabelInit),
                   IF denied
                   THEN [pipe EXCEPT ![o].pc = "ret", ![o].msg = MsgPermission]
                   ELSE Goto(o, "p86"))
    /\ UNCHANGED <<registry, nextObj, thr, collected, reverted,
                   store, now, crashed,
                   obs, cacheClient, once, marshalled, cache, keys>>

\* line 86
PipeConnecting(o) ==
    /\ ~crashed
    /\ pipe[o].pc = "p86"
    /\ AfterCall(o, UpdateSessionProgress(heap, heap[o].ID, LabelConnecting),
                 Goto(o, "p105"))
    /\ UNCHANGED <<registry, nextObj, thr, collected, reverted,
                   store, now, crashed,
                   obs, cacheClient, once, marshalled, cache, keys>>

\* line 105
PipeThinking(o) ==
    /\ ~crashed
    /\ pipe[o].pc = "p105"
    /\ AfterCall(o, UpdateSessionProgress(heap, heap[o].ID, LabelThinking),
                 Goto(o, "request"))
    /\ UNCHANGED <<registry, nextObj, thr, collected, reverted,
                   store, now, crashed,
                   obs, cacheClient, once, marshalled, cache, keys>>

\* lines 140-152: what the pipeline does with (hit, err) of the model request.
\* err is "" (nil), "available" (adapter.IsAvailableError) or "other"; plan is
\* the flag returned by the subscription check of line 81, which nothing
\* reads before line 150.
CollectsQuota(hit, plan) == ~hit /\ ~plan

HandleResult(o, hit, plan, err, aborted) ==
    IF err # ""
    THEN /\ reverted' = IF err = "available"
                        THEN [reverted EXCEPT ![o] = @ + 1] ELSE reverted
         /\ pipe' = [pipe EXCEPT ![o].pc = "ret", ![o].n = 0,
                                 ![o].buffer = <<>>,
                                 ![o].aborted = aborted,
                                 ![o].msg = IF err = "available"
                                            THEN MsgService ELSE MsgRequest]
         /\ UNCHANGED collected
    ELSE /\ collected' = IF CollectsQuota(hit, plan)
                         THEN [collected EXCEPT ![o] = @ + 1] ELSE collected
         /\ pipe' = [pipe EXCEPT ![o].pc = "p158", ![o].n = 0,
                                 ![o].hit = hit, ![o].plan = plan]
         /\ UNCHANGED reverted

\* a chunk callback without the poll of session.Context.Done() (lines
\* 116-120): every chunk goes on to line 123
RequestChunkUnpolled(o, data, limit) ==
    /\ ~crashed
    /\ pipe[o].pc = "request"
    /\ pipe[o].n < limit
    /\ pipe' = [pipe EXCEPT ![o].pc = "cb125", ![o].cur = data,
                             ![o].n = @ + 1]
    /\ UNCHANGED <<heap, registry, nextObj, thr, collected, reverted, store,
                   now, crashed,
                   obs, durable, once>>

\* lines 114-120: the collaborator delivers a chunk and the callback polls
\* session.Context.Done().  On cancellation the callback returns an error,
\* the request returns it, and lines 140-147 classify it.  limit caps the
\* number of chunks of one request.
RequestChunk(o, data, limit) ==
    /\ ~crashed
    /\ pipe[o].pc = "request"
    /\ pipe[o].n < limit
    /\ IF CtxDone(heap[o])
       THEN \E err \in {"available", "other"} :
                HandleResult(o, FALSE, FALSE, err, TRUE)
       ELSE /\ pipe' = [pipe EXCEPT ![o].pc = "cb125", ![o].cur = data,
                                    ![o].n = @ + 1]
            /\ UNCHANGED <<collected, reverted>>
    /\ UNCHANGED <<heap, registry, nextObj, thr, store, now,
                   crashed,
                   obs, durable, once>>

\* lines 123-126: buffer.WriteChunk, UpdateSessionProgress for a non-empty delta
CallbackUpdate(o) ==
    /\ ~crashed
    /\ pipe[o].pc = "cb125"
    /\ LET content == pipe[o].cur
           next == [pipe EXCEPT ![o].pc = "cb130",
                                ![o].buffer = IF content = "" THEN @
                                              ELSE Append(@, content)]
       IN IF content # ""
          THEN AfterCall(o, UpdateSessionProgress(heap, heap[o].ID, content),
                         next)
          ELSE /\ pipe' = next
               /\ UNCHANGED <<heap, saves>>
    /\ UNCHANGED <<registry, nextObj, thr, collected, reverted,
                   store, now, crashed,
                   obs, cacheClient, once, marshalled, cache, keys>>

\* lines 129-135: non-blocking send on session.ResultStream
CallbackSend(o) ==
    /\ ~crashed
    /\ pipe[o].pc = "cb130"
    /\ IF SendPanics(heap[o].ResultStream)
       THEN /\ pipe' = Unwind(o, "recover")
            /\ UNCHANGED heap
       ELSE /\ heap' = [heap EXCEPT ![o].ResultLen =
                           SendLen(heap[o].ResultStream, @)]
            /\ pipe' = [pipe EXCEPT ![o].pc = "request", ![o].cur = ""]
    /\ UNCHANGED <<registry, nextObj, thr, collected, reverted,
                   store, now, crashed,
                   obs, durable, once>>

\* lines 108-152: the model request returns (cache-hit flag, error)
RequestReturn(o) ==
    /\ ~crashed
    /\ pipe[o].pc = "request"
    /\ \E hit \in BOOLEAN, plan \in BOOLEAN,
          err \in {"", "available", "other"} :
           HandleResult(o, hit, plan, err, FALSE)
    /\ UNCHANGED <<heap, registry, nextObj, thr, store, now,
                   crashed,
                   obs, durable, once>>

\* a collaborator of the model request panics; the panic unwinds to line 57
RequestPanic(o) ==
    /\ ~crashed
    /\ pipe[o].pc = "request"
    /\ pipe' = Unwind(o, "recover")
    /\ UNCHANGED <<heap, registry, nextObj, thr, collected,
                   reverted, store, now, crashed,
                   obs, durable, once>>

\* line 155: buffer.ReadWithDefault; line 156: buffer.GetQuota
ReadWithDefault(buffer) == IF buffer = <<>> THEN <<DefaultResult>> ELSE buffer
GetQuota(buffer) == Len(buffer)

\* a message of the conversation store written by SaveResponse
Assistant == "assistant"
Response(result) == [Role |-> Assistant, Content |-> result]

\* lines 161-167: save unless the latest message of the loaded conversation
\* is an assistant message with this content
ShouldSave(messages, result) ==
    ~(/\ Len(messages) > 0
      /\ messages[Len(messages)].Role = Assistant
      /\ messages[Len(messages)].Content = result)

\* lines 158-167: conversation.LoadConversation and the decision taken on
\* the loaded copy
PipeStore(o) ==
    /\ ~crashed
    /\ pipe[o].pc = "p158"
    /\ LET result == ReadWithDefault(pipe[o].buffer)
           instance == store[heap[o].ConversationID]
       IN pipe' = [pipe EXCEPT
                     ![o].pc = IF heap[o].UserID # -1
                                  /\ ShouldSave(instance, result)
                               THEN "p169" ELSE "p174",
                     ![o].hit = FALSE, ![o].plan = FALSE]
    /\ UNCHANGED <<heap, registry, nextObj, thr, collected,
                   reverted, store, now, crashed,
                   obs, durable, once>>

\* line 169: instance.SaveResponse(db, result) appends to the store
PipeSaveResponse(o) ==
    /\ ~crashed
    /\ pipe[o].pc = "p169"
    /\ store' = [store EXCEPT ![heap[o].ConversationID] =
                    Append(@, Response(ReadWithDefault(pipe[o].buffer)))]
    /\ pipe' = Goto(o, "p174")
    /\ UNCHANGED <<heap, registry, nextObj, thr, collected,
                   reverted, now, crashed,
                   obs, durable, once>>

\* line 174
PipeDoneLabel(o) ==
    /\ ~crashed
    /\ pipe[o].pc = "p174"
    /\ AfterCall(o, UpdateSessionProgress(heap, heap[o].ID, LabelDone),
                 Goto(o, "p175"))
    /\ UNCHANGED <<registry, nextObj, thr, collected, reverted,
                   store, now, crashed,
                   obs, cacheClient, once, marshalled, cache, keys>>

\* line 175
PipeComplete(o) ==
    /\ ~crashed
    /\ pipe[o].pc = "p175"
    /\ AfterCall(o, CompleteSession(heap, heap[o].ID,
                                    ReadWithDefault(pipe[o].buffer),
                                    GetQuota(pipe[o].buffer)),
                 Unwind(o, "done"))
    /\ UNCHANGED <<registry, nextObj, thr, collected, reverted,
                   store, now, crashed,
                   obs, cacheClient, once, marshalled, cache, keys>>

\* lines 63-65: the pipeline returned an error
PipeFail(o) ==
    /\ ~crashed
    /\ pipe[o].pc = "ret"
    /\ AfterCall(o, FailSession(heap, heap[o].ID, pipe[o].msg),
                 Unwind(o, "done"))
    /\ UNCHANGED <<registry, nextObj, thr, collected, reverted,
                   store, now, crashed,
                   obs, cacheClient, once, marshalled, cache, keys>>

\* lines 56-61: the deferred recover handler calls FailSession; a panic
\* raised by that call is outside any recover and ends the process
PipeRecover(o) ==
    /\ ~crashed
    /\ pipe[o].pc = "recover"
    /\ LET r == FailSession(heap, heap[o].ID, MsgInternal)
       IN /\ heap' = r.heap
          /\ saves' = Spawn(heap[o].ID, r)
          /\ pipe' = Goto(o, IF r.panic THEN "escaped" ELSE "done")
          /\ crashed' = (crashed \/ r.panic)
    /\ UNCHANGED <<registry, nextObj, thr, collected, reverted,
                   store, now,
                   obs, cacheClient, once, marshalled, cache, keys>>

(* ------------------------------- timers -------------------------------- *)
\* The timer of context.WithTimeout (CreateSession line 111,
\* loadSessionFromCache line 383) fires.  All contexts get the same 15
\* minutes, so timers fire in creation order.
CtxTimeoutFires(o) ==
    /\ ~crashed
    /\ o <= nextObj
    /\ HasRuntime(heap[o])
    /\ ~heap[o].CtxExpired
    /\ \A p \in Objs : (p < o /\ HasRuntime(heap[p])) => heap[p].CtxExpired
    /\ heap' = [heap EXCEPT ![o].CtxExpired = TRUE]
    /\ UNCHANGED <<registry, nextObj, pipe, thr, collected,
                   reverted, store, now, crashed,
                   obs, durable, once>>

(* ------------------------------ the sweep ------------------------------ *)
\* time passes, up to `last`
Tick(last) ==
    /\ ~crashed
    /\ keys = {}
    /\ now < last
    /\ now' = now + TickStep
    /\ UNCHANGED <<heap, registry, nextObj, pipe, thr, collected, reverted,
                   store, crashed, obs, durable, once>>

\* a sweep that deletes every record that has been idle for half an hour
OldEarly ==
    {sid \in Ids : Exists(sid) /\ now - heap[registry[sid]].LastActivity >= TickStep}

\* the registered ids the loop of cleanupOldSessions deletes (line 452)
Old == {sid \in Ids : Exists(sid) /\ now - heap[registry[sid]].LastActivity > Hour}

\* cleanupOldSessions, lines 442-468, called by the ticker of
\* startCleanupTimer: one critical section under the write lock.  A record
\* that is deleted and still Pending or Processing has its cancel function
\* called first (lines 454-458); its status and its channels stay as they
\* are.
cleanupOldSessions ==
    /\ ~crashed
    /\ keys = {}
    /\ heap' = [o \in Objs |->
                  IF /\ \E sid \in Old : registry[sid] = o
                     /\ IsActive(heap[o])
                     /\ HasRuntime(heap[o])
                  THEN [heap[o] EXCEPT !.CtxCancelled = TRUE]
                  ELSE heap[o]]
    /\ registry' = [sid \in Ids |-> IF sid \in Old THEN 0 ELSE registry[sid]]
    /\ UNCHANGED <<nextObj, pipe, thr, collected, reverted, store, now,
                   crashed, obs, durable, once>>

(* ------------------------------ durability ----------------------------- *)
\* a goroutine started by `go sm.saveSessionToCache(session)` runs: it
\* stores the fields the session has now
SaveRun(o, ok) ==
    /\ ~crashed
    /\ saves[o] > 0
    /\ saves' = [saves EXCEPT ![o] = @ - 1]
    /\ cache' = saveSessionToCache(cache, heap[o], ok)
    /\ UNCHANGED <<heap, registry, nextObj, pipe, thr, collected, reverted,
                   store, now, crashed, obs, cacheClient, once, marshalled, keys>>

\* The same goroutine in its two steps.  json.Marshal (line 322) reads the
\* fields of the session, cache.Set (line 328) sends the document later;
\* goroutines holding equal documents are one element of `marshalled`.
SaveMarshal(o) ==
    /\ ~crashed
    /\ saves[o] > 0
    /\ saves' = [saves EXCEPT ![o] = @ - 1]
    /\ marshalled' = marshalled \cup {SessionData(heap[o])}
    /\ UNCHANGED <<heap, registry, nextObj, pipe, thr, collected, reverted,
                   store, now, crashed, obs, cacheClient, once, cache, keys>>

\* cache.Set of a marshalled document of session sid, accepted by Redis:
\* the last write wins
SaveSet(sid) ==
    /\ ~crashed
    /\ \E d \in marshalled :
          /\ d.ID = sid
          /\ marshalled' = marshalled \ {d}
          /\ cache' = [cache EXCEPT ![sid] = d]
    /\ UNCHANGED <<heap, registry, nextObj, pipe, thr, collected, reverted,
                   store, now, crashed, obs, cacheClient, once, saves, keys>>

\* recoverSessions admitting every unfinished snapshot, whatever its age
RecoverKeyAnyAge(sid, found, ok) ==
    /\ ~crashed
    /\ sid \in keys
    /\ keys' = keys \ {sid}
    /\ once' = [once EXCEPT !.done = (keys \ {sid} = {}),
                            !.running = (keys \ {sid} # {})]
    /\ IF found /\ cache[sid].Status \in ActiveStatuses
       THEN /\ nextObj < MaxObjs
            /\ nextObj' = nextObj + 1
            /\ heap' = [heap EXCEPT ![nextObj + 1] =
                            loadSessionFromCache(cache[sid])]
            /\ registry' = [registry EXCEPT ![sid] = nextObj + 1]
            /\ UNCHANGED cache
       ELSE UNCHANGED <<heap, registry, nextObj, cache>>
    /\ UNCHANGED <<pipe, thr, collected, reverted, store, now, crashed, obs,
                   cacheClient, marshalled, saves>>

\* recoverSessions resuming the work of each session it admits
RecoverKeyResume(sid, found, ok) ==
    /\ ~crashed
    /\ sid \in keys
    /\ keys' = keys \ {sid}
    /\ once' = [once EXCEPT !.done = (keys \ {sid} = {}),
                            !.running = (keys \ {sid} # {})]
    /\ IF found /\ cache[sid].Status \in ActiveStatuses
             /\ now - cache[sid].LastActivity < Hour
       THEN /\ nextObj < MaxObjs
            /\ nextObj' = nextObj + 1
            /\ heap' = [heap EXCEPT ![nextObj + 1] =
                            loadSessionFromCache(cache[sid])]
            /\ registry' = [registry EXCEPT ![sid] = nextObj + 1]
            /\ pipe' = [pipe EXCEPT ![nextObj + 1] =
                            [NoPipe EXCEPT !.pc = "spawned"]]
       ELSE UNCHANGED <<heap, registry, nextObj, pipe>>
    /\ UNCHANGED <<thr, collected, reverted, store, now, crashed, obs,
                   cacheClient, marshalled, cache, saves>>

\* recoverSessions, lines 407-424: one iteration of the loop over the keys
\* found at startup.  It runs inside sessionManagerOnce.Do, before any
\* caller of GetSessionManager proceeds.  found: loadSessionFromCache
\* returned the document; ok: Redis accepted the write of line 420.
RecoverKey(sid, found, ok) ==
    /\ ~crashed
    /\ sid \in keys
    /\ keys' = keys \ {sid}
    /\ once' = [once EXCEPT !.done = (keys \ {sid} = {}),
                            !.running = (keys \ {sid} # {})]
    /\ LET session == loadSessionFromCache(cache[sid])
       IN IF found /\ session.Status \in ActiveStatuses
          THEN IF now - session.LastActivity < Hour
               THEN /\ nextObj < MaxObjs
                    /\ nextObj' = nextObj + 1
                    /\ heap' = [heap EXCEPT ![nextObj + 1] = session]
                    /\ registry' = [registry EXCEPT ![sid] = nextObj + 1]
                    /\ UNCHANGED cache
               ELSE /\ cache' = saveSessionToCache(cache,
                                   [session EXCEPT !.Status = SessionError,
                                                   !.Error = MsgExpired], ok)
                    /\ UNCHANGED <<heap, registry, nextObj>>
          ELSE UNCHANGED <<heap, registry, nextObj, cache>>
    /\ UNCHANGED <<pipe, thr, collected, reverted, store, now, crashed, obs,
                   cacheClient, marshalled, saves>>

(* ------------------------------ observers ------------------------------ *)
\* GetSession, lines 145-154: a found session has its LastActivity touched
GetSession(h, sid) ==
    IF Exists(sid) THEN [h EXCEPT ![registry[sid]].LastActivity = now] ELSE h

\* total_progress is kept as the sequence of the fragments appended to it.
\* Every fragment is a non-empty string and every offset was returned by
\* len(), so offsets are counted in fragments.
\* bytes that do not belong to the string
Garbage == "?"
Pad(str, n) == str \o [i \in 1 .. (n - Len(str)) |-> Garbage]

\* `totalProgress := psh.Session.TotalProgress` (persistent_chat.go:233) is
\* read without sm.mutex while UpdateSessionProgress (line 163) assigns it:
\* the two words of the string are loaded separately.  first and second are
\* the values of the field at the two loads; the result is the data of one
\* with the length of the other, in either order.
TornValues(first, second) ==
    {Pad(first, Len(second)), SubSeq(second, 1, Len(first))}

\* GetNewProgress, lines 234-240, on the loaded string
GetNewProgress(psh, totalProgress) ==
    IF Len(totalProgress) > psh.LastSent
    THEN [LastSent |-> Len(totalProgress),
          out |-> SubSeq(totalProgress, psh.LastSent + 1, Len(totalProgress))]
    ELSE [LastSent |-> psh.LastSent, out |-> <<>>]

\* a handler that starts at the current end of total_progress instead of 0
HandlerAtEnd(sid, o) ==
    [NoObserver EXCEPT !.pc = "ready", !.SessionID = sid, !.Session = o,
                       !.LastSent = Len(heap[o].TotalProgress)]

\* a handler value as built at lines 220-224, 290-294 and 304-308
Handler(sid, o) ==
    [NoObserver EXCEPT !.pc = "ready", !.SessionID = sid, !.Session = o,
                       !.LastSent = 0]

\* NewProgressStreamHandler, lines 213-225
NewProgressStreamHandler(k, sid) ==
    /\ ~crashed
    /\ keys = {}
    /\ obs[k].pc = "none"
    /\ heap' = GetSession(heap, sid)
    /\ obs' = IF Exists(sid)
              THEN [obs EXCEPT ![k] = Handler(sid, registry[sid])]
              ELSE obs    \* "session not found"
    /\ UNCHANGED <<registry, nextObj, pipe, thr, collected, reverted, store,
                   now, crashed, durable, once>>

\* ReconnectToSession, lines 286-295: the in-memory lookup
ReconnectCheck(k, sid) ==
    /\ ~crashed
    /\ keys = {}
    /\ obs[k].pc = "none"
    /\ heap' = GetSession(heap, sid)
    /\ obs' = [obs EXCEPT ![k] =
                 IF Exists(sid) THEN Handler(sid, registry[sid])
                 ELSE [NoObserver EXCEPT !.pc = "rc298", !.SessionID = sid]]
    /\ UNCHANGED <<registry, nextObj, pipe, thr, collected, reverted, store,
                   now, crashed, durable, once>>

\* ReconnectToSession, line 298: loadSessionFromCache; found is whether
\* cache.Get returned the document
ReconnectLoad(k, found) ==
    /\ ~crashed
    /\ obs[k].pc = "rc298"
    /\ LET d == cache[obs[k].SessionID]
       IN IF cacheClient /\ found /\ d.Status # "none"
          THEN /\ nextObj < MaxObjs
               /\ nextObj' = nextObj + 1
               /\ heap' = [heap EXCEPT ![nextObj + 1] = loadSessionFromCache(d)]
               /\ obs' = [obs EXCEPT ![k].pc = "rc300",
                                     ![k].Session = nextObj + 1]
          ELSE /\ obs' = [obs EXCEPT ![k] = NoObserver]  \* "not found or expired"
               /\ UNCHANGED <<heap, nextObj>>
    /\ UNCHANGED <<registry, pipe, thr, collected, reverted, store, now,
                   crashed, durable, once>>

\* ReconnectToSession, lines 300-308: the loaded session is registered
ReconnectInsert(k) ==
    /\ ~crashed
    /\ obs[k].pc = "rc300"
    /\ registry' = [registry EXCEPT ![obs[k].SessionID] = obs[k].Session]
    /\ obs' = [obs EXCEPT ![k] = Handler(obs[k].SessionID, obs[k].Session)]
    /\ UNCHANGED <<heap, nextObj, pipe, thr, collected, reverted, store, now,
                   crashed, durable, once>>

\* GetNewProgress called on a handler: the first load of line 233
PullLoad(k) ==
    /\ ~crashed
    /\ obs[k].pc = "ready"
    /\ obs' = [obs EXCEPT ![k].pc = "pull",
                          ![k].tp = heap[obs[k].Session].TotalProgress]
    /\ UNCHANGED <<heap, registry, nextObj, pipe, thr, collected, reverted,
                   store, now, crashed, durable, once>>

\* a GetNewProgress that takes its output from the progress queue of the
\* record, as a consuming receive would
PullFinishDequeue(k) ==
    /\ ~crashed
    /\ obs[k].pc = "pull"
    /\ LET o == obs[k].Session
           r == GetNewProgress(obs[k], heap[o].TotalProgress)
       IN /\ obs' = [obs EXCEPT ![k].pc = "ready", ![k].tp = <<>>,
                                 ![k].LastSent = r.LastSent,
                                 ![k].out = r.out]
          /\ heap' = [heap EXCEPT ![o].ProgressLen =
                          IF @ > 0 THEN @ - 1 ELSE 0]
    /\ UNCHANGED <<registry, nextObj, pipe, thr, collected, reverted,
                   store, now, crashed, durable, once>>

\* GetNewProgress: the second load of line 233 and lines 234-240
PullFinish(k) ==
    /\ ~crashed
    /\ obs[k].pc = "pull"
    /\ \E totalProgress \in
            TornValues(obs[k].tp, heap[obs[k].Session].TotalProgress) :
         LET r == GetNewProgress(obs[k], totalProgress)
         IN obs' = [obs EXCEPT ![k].pc = "ready", ![k].tp = <<>>,
                               ![k].LastSent = r.LastSent,
                               ![k].out = r.out]
    /\ UNCHANGED <<heap, registry, nextObj, pipe, thr, collected, reverted,
                   store, now, crashed, durable, once>>

(* --------------------------- progress stream --------------------------- *)
\* streamSessionProgress (part_004:154-234) serving one websocket.
\* obs[k].pc is its position:
\*   s190    the status event is written, before IsCompleted of line 190
\*   s206    before the loop condition of line 206
\*   select  waiting for one of the two tickers
\*   s217    inside GetNewProgress, after the first load of line 233
\*   final   before the completed event of line 191 or 229
\*   s232    the completed event is being built, TotalProgress half read
\*   ended   the handler returned after the completed event
\*   broken  the handler returned because a write failed
\* events are the JSON documents the client received, in order, the text of
\* progress events that follow each other joined into one.
Event(type, progress) == [type |-> type, progress |-> progress]
Written(events, e) ==
    IF /\ e.type = "progress"
       /\ events # <<>>
       /\ events[Len(events)].type = "progress"
    THEN [events EXCEPT ![Len(events)].progress = @ \o e.progress]
    ELSE Append(events, e)

\* lines 174-187: the handler is built and the status event written, or
\* the error message when the session is not registered
StreamOpen(k, sid) ==
    /\ ~crashed
    /\ keys = {}
    /\ obs[k].pc = "none"
    /\ heap' = GetSession(heap, sid)
    /\ obs' = [obs EXCEPT ![k] =
                 IF Exists(sid)
                 THEN [Handler(sid, registry[sid]) EXCEPT
                          !.pc = "s190",
                          !.events = <<Event("status", <<>>)>>]
                 ELSE [NoObserver EXCEPT !.pc = "ended",
                                         !.SessionID = sid,
                                         !.events = <<Event("message", <<>>)>>]]
    /\ UNCHANGED <<registry, nextObj, pipe, thr, collected, reverted, store,
                   now, crashed, durable, once>>

\* IsCompleted (persistent_chat.go:244-252) at line 190 or 206
StreamIsCompleted(k) ==
    /\ ~crashed
    /\ obs[k].pc \in {"s190", "s206"}
    /\ obs' = [obs EXCEPT ![k].pc =
                 IF heap[obs[k].Session].Status \in TerminalStatuses
                 THEN "final" ELSE "select"]
    /\ UNCHANGED <<heap, registry, nextObj, pipe, thr, collected, reverted,
                   store, now, crashed, durable, once>>

\* lines 208-212: the heartbeat ticker; ok is whether the write succeeded
StreamPing(k, ok) ==
    /\ ~crashed
    /\ obs[k].pc = "select"
    /\ obs[k].pings < MaxPings
    /\ obs' = IF ok
              THEN [obs EXCEPT ![k].pc = "s206", ![k].pings = @ + 1,
                               ![k].events = Written(@, Event("ping", <<>>))]
              ELSE [obs EXCEPT ![k].pc = "broken"]
    /\ UNCHANGED <<heap, registry, nextObj, pipe, thr, collected, reverted,
                   store, now, crashed, durable, once>>

\* line 216: the progress ticker, GetNewProgress up to its first load
StreamTickLoad(k) ==
    /\ ~crashed
    /\ obs[k].pc = "select"
    /\ obs' = [obs EXCEPT ![k].pc = "s217",
                          ![k].tp = heap[obs[k].Session].TotalProgress]
    /\ UNCHANGED <<heap, registry, nextObj, pipe, thr, collected, reverted,
                   store, now, crashed, durable, once>>

\* a progress tick that sends the whole of total_progress every time
StreamTickSendAll(k, ok) ==
    /\ ~crashed
    /\ obs[k].pc = "s217"
    /\ LET totalProgress == heap[obs[k].Session].TotalProgress
       IN obs' = [obs EXCEPT ![k].pc = "s206", ![k].tp = <<>>,
                             ![k].LastSent = Len(totalProgress),
                             ![k].events =
                                 IF totalProgress = <<>> THEN @
                                 ELSE Written(@, Event("progress", totalProgress))]
    /\ UNCHANGED <<heap, registry, nextObj, pipe, thr, collected, reverted,
                   store, now, crashed, durable, once>>

\* lines 216-223: GetNewProgress returns and a non-empty result is written
StreamTickSend(k, ok) ==
    /\ ~crashed
    /\ obs[k].pc = "s217"
    /\ \E totalProgress \in
            TornValues(obs[k].tp, heap[obs[k].Session].TotalProgress) :
         LET r == GetNewProgress(obs[k], totalProgress)
             next == [obs[k] EXCEPT !.tp = <<>>, !.LastSent = r.LastSent]
         IN obs' = [obs EXCEPT ![k] =
                       IF r.out = <<>> THEN [next EXCEPT !.pc = "s206"]
                       ELSE IF ok
                       THEN [next EXCEPT !.pc = "s206",
                                !.events = Written(@, Event("progress", r.out))]
                       ELSE [next EXCEPT !.pc = "broken"]]
    /\ UNCHANGED <<heap, registry, nextObj, pipe, thr, collected, reverted,
                   store, now, crashed, durable, once>>

\* lines 191-195 and 229-233: the first load of handler.Session.TotalProgress
StreamFinalLoad(k) ==
    /\ ~crashed
    /\ obs[k].pc = "final"
    /\ obs' = [obs EXCEPT ![k].pc = "s232",
                          ![k].tp = heap[obs[k].Session].TotalProgress]
    /\ UNCHANGED <<heap, registry, nextObj, pipe, thr, collected, reverted,
                   store, now, crashed, durable, once>>

\* the completed event is written and the handler returns
StreamFinalSend(k, ok) ==
    /\ ~crashed
    /\ obs[k].pc = "s232"
    /\ \E totalProgress \in
            TornValues(obs[k].tp, heap[obs[k].Session].TotalProgress) :
         obs' = [obs EXCEPT ![k].tp = <<>>,
                            ![k].pc = IF ok THEN "ended" ELSE "broken",
                            ![k].events =
                               IF ok THEN Written(@, Event("completed", totalProgress))
                               ELSE @]
    /\ UNCHANGED <<heap, registry, nextObj, pipe, thr, collected, reverted,
                   store, now, crashed, durable, once>>

(* ------------------------------ the client ---------------------------- *)
\* SessionProgressStream (app/src/api/session.ts:139-263), the browser side
\* of the progress stream.  Connection k of the client is served by
\* obs[k]; the client object, and its sentLength, live across connections.
\* delivered is the text passed to onProgress so far, final the progress of
\* the completed event.
ClientInit ==
    [sentLength |-> 0, delivered |-> <<>>, final |-> <<>>, completed |-> FALSE]

\* ws.onmessage, lines 183-218
onmessage(cl, data) ==
    CASE data.type = "progress" ->
            IF Len(data.progress) > 0
            THEN [cl EXCEPT !.sentLength = @ + Len(data.progress),
                            !.delivered = @ \o data.progress]
            ELSE cl
      [] data.type = "completed" ->
            LET remaining == SubSeq(data.progress, cl.sentLength + 1,
                                    Len(data.progress))
            IN [cl EXCEPT !.sentLength = @ + Len(remaining),
                          !.delivered = @ \o remaining,
                          !.final = data.progress,
                          !.completed = TRUE]
      [] OTHER -> cl

\* the client after the messages of one connection, in order
RECURSIVE Received(_, _)
Received(cl, events) ==
    IF events = <<>> THEN cl
    ELSE Received(onmessage(cl, Head(events)), Tail(events))

\* the client after its first k connections
RECURSIVE ClientAfter(_)
ClientAfter(k) ==
    IF k = 0 THEN ClientInit ELSE Received(ClientAfter(k - 1), obs[k].events)

\* ws.onclose and attemptReconnect, lines 225-247: after connection k - 1
\* broke, connect() opens connection k on the same session id
attemptReconnect(k) ==
    /\ k - 1 \in Observers
    /\ obs[k - 1].pc = "broken"
    /\ StreamOpen(k, obs[k - 1].SessionID)

(* ---------------------------- specification ---------------------------- *)
\* the request handlers in T, after the duplicate check of a start; S are
\* the session ids the cancel requests name
Handlers(T, S) ==
    \/ \E t \in T : StartCreate(t)
    \/ \E t \in T, sid \in S : CancelCheck(t, sid)
    \/ \E t \in T : CancelDo(t)

\* the background goroutines, with at most `limit` chunks per request
PipelineWith(limit) ==
    \/ \E o \in Objs : PipeDispatch(o)
    \/ \E o \in Objs : PipeInit(o)
    \/ \E o \in Objs : PipeConnecting(o)
    \/ \E o \in Objs : PipeThinking(o)
    \/ \E o \in Objs, data \in ChunkContents : RequestChunk(o, data, limit)
    \/ \E o \in Objs : CallbackUpdate(o)
    \/ \E o \in Objs : CallbackSend(o)
    \/ \E o \in Objs : RequestReturn(o)
    \/ \E o \in Objs : RequestPanic(o)
    \/ \E o \in Objs : PipeStore(o)
    \/ \E o \in Objs : PipeSaveResponse(o)
    \/ \E o \in Objs : PipeDoneLabel(o)
    \/ \E o \in Objs : PipeComplete(o)
    \/ \E o \in Objs : PipeFail(o)
    \/ \E o \in Objs : PipeRecover(o)

Pipeline == PipelineWith(MaxChunks)

\* the timers of the session contexts
Timers == \E o \in Objs : CtxTimeoutFires(o)

Run == Handlers(Threads, 1 .. MaxPairSessions) \/ Pipeline \/ Timers

\* at most MaxSessions sessions are started
Next ==
    \/ \E t \in Threads, u \in Users, c \in Convs :
          StartCheck(t, u, c, MaxSessions)
    \/ Run

Spec == Init /\ [][Next]_vars

\* one session more, for the properties that relate two sessions
NextPair ==
    \/ \E t \in Threads, u \in Users, c \in Convs :
          StartCheck(t, u, c, MaxPairSessions)
    \/ Run

SpecPair == Init /\ [][NextPair]_vars

\* handlers that hold one of the ProgressStreamHandler values K and call
\* GetNewProgress on it
Observe(K) ==
    \/ \E k \in K, sid \in Ids : NewProgressStreamHandler(k, sid)
    \/ \E k \in K, sid \in Ids : ReconnectCheck(k, sid)
    \/ \E k \in K, found \in BOOLEAN : ReconnectLoad(k, found)
    \/ \E k \in K : PullLoad(k)
    \/ \E k \in K : PullFinish(k)

\* one session started and cancelled by one request handler at a time, and
\* its observers; no cache client
NextObserve ==
    \/ \E u \in Users, c \in Convs : StartCheck(1, u, c, MaxSessions)
    \/ Handlers({1}, 1 .. MaxSessions)
    \/ Pipeline
    \/ Timers
    \/ Observe({1})

\* the process starts with a cache client and an empty cache
InitCached ==
    /\ heap = [o \in Objs |-> NoSession]
    /\ registry = [sid \in Ids |-> 0]
    /\ nextObj = 0
    /\ pipe = [o \in Objs |-> NoPipe]
    /\ thr = [t \in Threads |-> Idle]
    /\ collected = [o \in Objs |-> 0]
    /\ reverted = [o \in Objs |-> 0]
    /\ store = [c \in Convs |-> <<>>]
    /\ now = 0
    /\ crashed = FALSE
    /\ obs = [k \in Observers |-> NoObserver]
    /\ cacheClient = TRUE
    /\ cache = [sid \in Ids |-> NoSnapshot]
    /\ saves = [o \in Objs |-> 0]
    /\ marshalled = {}
    /\ keys = {}
    /\ once = Constructed

\* one session that nobody cancels and one polling observer while time
\* passes and the sweep runs
NextSweep ==
    \/ \E u \in Users, c \in Convs : StartCheck(1, u, c, MaxSessions)
    \/ StartCreate(1)
    \/ Pipeline
    \/ Tick(MaxTicks * TickStep)
    \/ cleanupOldSessions
    \/ \E sid \in 1 .. MaxSessions : NewProgressStreamHandler(1, sid)
    \/ PullLoad(1)
    \/ PullFinish(1)

SpecSweep == InitCached /\ [][NextSweep]_vars

\* one session that runs to its end undisturbed, and two observers
NextObservers ==
    \/ \E u \in Users, c \in Convs : StartCheck(1, u, c, MaxSessions)
    \/ StartCreate(1)
    \/ Pipeline
    \/ Observe(Observers)

SpecObservers == Init /\ [][NextObservers]_vars

SpecObserve == Init /\ [][NextObserve]_vars

\* The documents a previous run of the process can have left in the cache
\* under one key: a session in each status, last active `age` minutes
\* before this process started.
StartupAges == {Hour - 1, Hour, 2 * Hour}
StartupProgress(status) ==
    CASE status = SessionPending -> <<>>
      [] status = SessionProcessing -> <<LabelInit, LabelConnecting, LabelThinking>>
      [] status = SessionCompleted ->
            <<LabelInit, LabelConnecting, LabelThinking, "a", LabelDone>>
      [] status = SessionError -> <<LabelInit>>
      [] status = SessionCancelled -> <<LabelInit, LabelConnecting>>
StartupSnapshot(status, age) ==
    LET total == StartupProgress(status)
    IN SessionData(
       [ID |-> RecoveredID, UserID |-> 7, ConversationID |-> 42,
        Status |-> status,
        Progress |-> IF total = <<>> THEN "" ELSE total[Len(total)],
        TotalProgress |-> total,
        LastActivity |-> BootTime - age, CreatedAt |-> 0,
        CompletedAt |-> IF status \in TerminalStatuses
                        THEN BootTime - age ELSE Nil,
        Result |-> IF status = SessionCompleted THEN <<"a">> ELSE <<>>,
        Error |-> IF status = SessionError THEN MsgPermission ELSE "",
        Quota |-> IF status = SessionCompleted THEN 1 ELSE 0])
StartupSnapshots ==
    {StartupSnapshot(status, age) :
        status \in ActiveStatuses \cup {SessionCompleted}, age \in StartupAges}

\* the process starts with a cache client and one session in the cache
InitRecover ==
    /\ heap = [o \in Objs |-> NoSession]
    /\ registry = [sid \in Ids |-> 0]
    /\ nextObj = 0
    /\ pipe = [o \in Objs |-> NoPipe]
    /\ thr = [t \in Threads |-> Idle]
    /\ collected = [o \in Objs |-> 0]
    /\ reverted = [o \in Objs |-> 0]
    /\ store = [c \in Convs |-> <<>>]
    /\ now = BootTime
    /\ crashed = FALSE
    /\ obs = [k \in Observers |-> NoObserver]
    /\ cacheClient = TRUE
    /\ \E d \in StartupSnapshots :
          cache = [sid \in Ids |-> IF sid = RecoveredID THEN d ELSE NoSnapshot]
    /\ saves = [o \in Objs |-> 0]
    /\ marshalled = {}
    /\ keys = {RecoveredID}
    /\ once = Recovering

\* startup recovery, then chat requests one at a time, the pipeline of the
\* session they start, the save goroutines and a reconnecting client
NextRecover ==
    \/ \E sid \in Ids, found \in BOOLEAN, ok \in BOOLEAN :
          RecoverKey(sid, found, ok)
    \/ \E u \in Users, c \in Convs : StartCheck(1, u, c, MaxSessions)
    \/ StartCreate(1)
    \/ Pipeline
    \/ \E o \in Objs, ok \in BOOLEAN : SaveRun(o, ok)
    \/ \E sid \in Ids : ReconnectCheck(1, sid)
    \/ \E found \in BOOLEAN : ReconnectLoad(1, found)
    \/ ReconnectInsert(1)

SpecRecover == InitRecover /\ [][NextRecover]_vars

\* the websocket handlers serving the observers in K, opened on the ids in S
Stream(K, S) ==
    \/ \E k \in K, sid \in S : StreamOpen(k, sid)
    \/ \E k \in K : StreamIsCompleted(k)
    \/ \E k \in K, ok \in BOOLEAN : StreamPing(k, ok)
    \/ \E k \in K : StreamTickLoad(k)
    \/ \E k \in K, ok \in BOOLEAN : StreamTickSend(k, ok)
    \/ \E k \in K : StreamFinalLoad(k)
    \/ \E k \in K, ok \in BOOLEAN : StreamFinalSend(k, ok)

\* one session, one request handler and one client of the progress stream
NextStream ==
    \/ \E u \in Users, c \in Convs : StartCheck(1, u, c, MaxSessions)
    \/ Handlers({1}, 1 .. MaxSessions)
    \/ Pipeline
    \/ Stream({1}, 1 .. MaxSessions)

SpecStream == Init /\ [][NextStream]_vars

\* startup recovery of one session that has no pipeline, a client of its
\* progress stream, the clock and the sweep; a cancel request may come
Recover ==
    \E sid \in Ids, found \in BOOLEAN, ok \in BOOLEAN : RecoverKey(sid, found, ok)
NextIdle ==
    \/ Recover
    \/ Tick(BootTime + MaxTicks * TickStep)
    \/ cleanupOldSessions
    \/ Stream({1}, {RecoveredID})
    \/ CancelCheck(1, RecoveredID)
    \/ CancelDo(1)

\* recovery ends, the tickers fire and the websocket handler keeps running
SpecIdle ==
    /\ InitRecover
    /\ [][NextIdle]_vars
    /\ WF_vars(Recover)
    /\ WF_vars(Tick(BootTime + MaxTicks * TickStep))
    /\ WF_vars(cleanupOldSessions)
    /\ WF_vars(Stream({1}, {RecoveredID}))

\* one session that nobody cancels, and the save goroutines of its updates
\* with Marshal and Set as separate steps
NextDurable ==
    \/ \E u \in Users, c \in Convs : StartCheck(1, u, c, MaxSessions)
    \/ StartCreate(1)
    \/ Pipeline
    \/ \E o \in Objs : SaveMarshal(o)
    \/ \E sid \in Ids : SaveSet(sid)

SpecDurable == InitCached /\ [][NextDurable]_vars

\* one session that nobody cancels: its pipeline, the timer of its context,
\* the clock and the sweep
NextLife ==
    \/ \E u \in Users, c \in Convs : StartCheck(1, u, c, MaxSessions)
    \/ StartCreate(1)
    \/ Pipeline
    \/ Timers
    \/ Tick(MaxTicks * TickStep)
    \/ cleanupOldSessions

\* the goroutine of the pipeline is scheduled and the model request returns
\* or delivers its next chunk; the timer and the cleanup ticker fire
SpecLife ==
    /\ Init
    /\ [][NextLife]_vars
    /\ WF_vars(Pipeline)
    /\ WF_vars(Timers)
    /\ WF_vars(Tick(MaxTicks * TickStep))
    /\ WF_vars(cleanupOldSessions)

\* the forms of one websocket connection, handled one at a time, and the
\* pipelines of the sessions they start
NextChat ==
    \/ \E u \in Users, c \in Convs, restart \in BOOLEAN :
          PersistentChatHandler(1, u, c, restart, MaxPairSessions)
    \/ ChatReply(1)
    \/ RestartCancelCheck(1)
    \/ RestartCancelDo(1)
    \/ HandlerStartCheck(1)
    \/ StartCreate(1)
    \/ Pipeline

SpecChat == Init /\ [][NextChat]_vars

\* one session and the cancel requests of its owner and of a stranger, on
\* its id and on an id that was never issued
NextCancel ==
    \/ \E u \in Users, c \in Convs : StartCheck(1, u, c, MaxSessions)
    \/ StartCreate(1)
    \/ Pipeline
    \/ \E caller \in Callers, sid \in (1 .. MaxSessions) \cup {RecoveredID} :
          cancelSession(2, caller, sid)
    \/ ApiCancelCheck(2)
    \/ ApiCancelDo(2)
    \/ ApiRespond(2)

SpecCancel == Init /\ [][NextCancel]_vars

\* one session, the cancel requests of one handler and the save goroutines,
\* with a cache that accepts or refuses each write
NextAhead ==
    \/ \E u \in Users, c \in Convs : StartCheck(1, u, c, MaxSessions)
    \/ Handlers({1}, 1 .. MaxSessions)
    \/ Pipeline
    \/ \E o \in Objs, ok \in BOOLEAN : SaveRun(o, ok)

SpecAhead == InitCached /\ [][NextAhead]_vars

\* the handlers of the connections in K after they were opened
StreamServe(K) ==
    \/ \E k \in K : StreamIsCompleted(k)
    \/ \E k \in K, ok \in BOOLEAN : StreamPing(k, ok)
    \/ \E k \in K : StreamTickLoad(k)
    \/ \E k \in K, ok \in BOOLEAN : StreamTickSend(k, ok)
    \/ \E k \in K : StreamFinalLoad(k)
    \/ \E k \in K, ok \in BOOLEAN : StreamFinalSend(k, ok)

\* one undisturbed session and one client of its progress stream, which
\* reconnects when its connection breaks
NextClient ==
    \/ \E u \in Users, c \in Convs : StartCheck(1, u, c, MaxSessions)
    \/ StartCreate(1)
    \/ Pipeline
    \/ \E sid \in 1 .. MaxSessions : StreamOpen(1, sid)
    \/ \E k \in Observers : attemptReconnect(k)
    \/ StreamServe(Observers)

SpecClient == Init /\ [][NextClient]_vars

\* enough chunks in one request to fill the progress queue
QueueChunks == QueueCap

\* one undisturbed session whose request streams up to QueueChunks chunks
NextQueue ==
    \/ \E u \in Users, c \in Convs : StartCheck(1, u, c, MaxSessions)
    \/ StartCreate(1)
    \/ PipelineWith(QueueChunks)

SpecQueue == Init /\ [][NextQueue]_vars

TypeOK ==
    /\ nextObj \in 0 .. MaxObjs
    /\ now \in 0 .. (BootTime + MaxTicks * TickStep)
    /\ crashed \in BOOLEAN
    /\ \A o \in Objs : heap[o].Status \in
           {"none"} \cup ActiveStatuses \cup TerminalStatuses

(* ------------------------------ properties ----------------------------- *)
PipelineEnded(o) == pipe[o].pc \in {"done", "escaped"}

\* this step is the pipeline of session o calling Complete / Fail
PipelineTerminalCall(o) ==
    /\ pipe[o].pc \in {"p175", "ret", "recover"}
    /\ pipe'[o].pc # pipe[o].pc

\* this step is a request handler calling sm.CancelSession(sid)
CancelCall(sid) ==
    \E t \in Threads : /\ thr[t].op = "cancel"
                       /\ thr[t].sid = sid
                       /\ thr'[t].op = "idle"

TerminalCall(sid) == PipelineTerminalCall(sid) \/ CancelCall(sid)

\* C1: for every (user, conversation) pair at most one registered record is
\* Pending or Processing, in every reachable state.
C1_SingleFlight ==
    \A u \in Users, c \in Convs : Cardinality(ConversationSessions(u, c)) <= 1

\* C2: a CreateSession executed while the pair already has an active record
\* registers nothing; executed when there is none it registers exactly one
\* new record, under a fresh id, with status Pending.
C2_CreateRejectsDuplicate ==
    [][\A t \in Threads :
          (thr[t].op = "start" /\ thr'[t].op = "idle") =>
             IF ConversationSessions(thr[t].user, thr[t].conv) # {}
             THEN nextObj' = nextObj /\ registry' = registry /\ heap' = heap
             ELSE /\ nextObj' = nextObj + 1
                  /\ registry[nextObj'] = 0
                  /\ registry' = [registry EXCEPT ![nextObj'] = nextObj']
                  /\ heap'[nextObj'].Status = SessionPending
                  /\ \A o \in Objs \ {nextObj'} : heap'[o] = heap[o]]_vars

\* C3: Complete, Fail or Cancel called on a record that is already terminal
\* changes none of status, result, error, quota, completed_at, does not touch
\* the queues and raises no panic.
C3_TerminalCallIsNoOp ==
    [][\A sid \in Objs :
          (Exists(sid) /\ IsTerminal(heap[registry[sid]]) /\ TerminalCall(sid))
          => LET old == heap[registry[sid]]
                 new == heap'[registry[sid]]
             IN /\ new.Status = old.Status
                /\ new.Result = old.Result
                /\ new.Error = old.Error
                /\ new.Quota = old.Quota
                /\ new.CompletedAt = old.CompletedAt
                /\ new.ProgressStream = old.ProgressStream
                /\ new.ResultStream = old.ResultStream
                /\ pipe'[sid].pc \notin {"recover", "escaped"}
                /\ crashed' = crashed]_vars

\* C4: once the status of a record is Completed, Error or Cancelled, no step
\* changes it.
C4_TerminalAbsorbing ==
    [][\A o \in Objs :
          IsTerminal(heap[o]) => heap'[o].Status = heap[o].Status]_vars

\* C5: no panic ever leaves the background pipeline goroutine.
C5_NoPanicEscapes == \A o \in Objs : pipe[o].pc # "escaped"

\* C6: each queue of a record is closed iff the record has made a terminal
\* transition, and no terminal call runs close on a queue already closed.
C6_QueuesClosedOnce ==
    /\ [](\A o \in Objs :
            /\ (heap[o].ProgressStream = "closed") = (heap[o].CompletedAt # Nil)
            /\ (heap[o].ResultStream = "closed") = (heap[o].CompletedAt # Nil))
    /\ [][\A sid \in Objs :
            (Exists(sid) /\ TerminalCall(sid)) =>
               /\ heap[registry[sid]].ProgressStream # "closed"
               /\ heap[registry[sid]].ResultStream # "closed"]_vars

\* C7: per session, quota is collected at most once, usage is reverted at
\* most once, never both, and a session whose quota was collected ends
\* Completed.
C7_BillingExactlyOnce ==
    \A o \in Objs :
       /\ collected[o] <= 1
       /\ reverted[o] <= 1
       /\ ~(collected[o] > 0 /\ reverted[o] > 0)
       /\ (collected[o] > 0 /\ PipelineEnded(o)) =>
              heap[o].Status = SessionCompleted

\* C8: when the model request succeeds, quota is collected iff the result
\* was not a cache hit.
C8_CollectUnlessCacheHit ==
    [][\A o \in Objs :
          (pipe[o].pc = "request" /\ pipe'[o].pc = "p158") =>
             collected'[o] = collected[o] + (IF pipe'[o].hit THEN 0 ELSE 1)]_vars

C10_CancelledIsFinal ==
    /\ [](\A o \in Objs :
            (PipelineEnded(o) /\ pipe[o].aborted) =>
                heap[o].Status = SessionCancelled)
    /\ [][\A o \in Objs :
            heap[o].Status = SessionCancelled =>
                heap'[o].Status = SessionCancelled]_vars

\* C11: a chunk callback invoked after the session's context is done returns
\* the abort error: it never reaches the UpdateSessionProgress call of line
\* 125 and the step leaves total_progress as it was.
C11_CallbackObservesCancel ==
    [][\A o \in Objs :
          (pipe[o].pc = "request" /\ CtxDone(heap[o])) =>
             /\ pipe'[o].pc # "cb125"
             /\ (pipe'[o].pc # pipe[o].pc) =>
                    heap'[o].TotalProgress = heap[o].TotalProgress]_vars

\* a callback saw the cancellation and the request returned its error
C11_Witness ==
    \E o \in Objs : /\ pipe[o].pc = "ret"
                     /\ pipe[o].aborted
                     /\ CtxDone(heap[o])

\* the step is a GetNewProgress call of observer k returning
PullReturns(k) == obs[k].pc = "pull" /\ obs'[k].pc = "ready"

\* the step appends to the total_progress of the record observer k holds
UpdateDuring(k) ==
    obs[k].tp # heap[obs[k].Session].TotalProgress

\* C12: under any interleaving with UpdateSessionProgress, every Pull of an
\* observer returns exactly the part of total_progress between the offset it
\* started from and the offset it reaches, so the outputs of successive
\* calls, concatenated, are total_progress up to the last offset: no gap,
\* no duplication, no reordering.
C12_MonotoneReplay ==
    [][\A k \in Observers :
          PullReturns(k) =>
             /\ obs'[k].LastSent >= obs[k].LastSent
             /\ obs'[k].LastSent <= Len(heap'[obs[k].Session].TotalProgress)
             /\ obs'[k].out =
                   SubSeq(heap'[obs[k].Session].TotalProgress,
                          obs[k].LastSent + 1, obs'[k].LastSent)]_vars

\* C13: a Pull step of one observer changes only that observer: the session
\* records, the registry and every other observer are left as they were.
C13_PullIsPureRead ==
    [][\A k \in Observers :
          (obs[k].pc \in {"ready", "pull"} /\ obs'[k] # obs[k]) =>
             /\ heap' = heap
             /\ registry' = registry
             /\ \A j \in Observers \ {k} : obs'[j] = obs[j]]_vars

\* a Pull of one observer returned output while another observer of the same
\* record was at a different, non-zero offset
C13_Witness ==
    \E k, j \in Observers :
       /\ k # j
       /\ obs[k].pc = "ready" /\ obs[j].pc = "ready"
       /\ obs[k].Session = obs[j].Session
       /\ obs[k].out # <<>>
       /\ obs[j].LastSent > 0
       /\ obs[j].LastSent # obs[k].LastSent

\* C20: a handler from NewProgressStreamHandler or ReconnectToSession starts
\* at offset 0; a Pull made at offset 0 with no update during the call
\* returns the whole total_progress; a Pull with nothing appended since the
\* offset was reached returns the empty string and keeps the offset.
C20_ObserverStartsAtZero ==
    [][\A k \in Observers :
          /\ (obs[k].pc \in {"none", "rc298", "rc300"} /\ obs'[k].pc = "ready")
                => obs'[k].LastSent = 0
          /\ (PullReturns(k) /\ ~UpdateDuring(k)) =>
                LET total == heap[obs[k].Session].TotalProgress
                IN /\ obs[k].LastSent = 0 => obs'[k].out = total
                   /\ obs[k].LastSent = Len(total) =>
                         /\ obs'[k].out = <<>>
                         /\ obs'[k].LastSent = obs[k].LastSent]_vars

\* the first Pull of a handler returned a total_progress of several fragments
C20_Witness ==
    \E k \in Observers :
       /\ obs[k].pc = "ready"
       /\ obs[k].LastSent >= 2
       /\ obs[k].out = heap[obs[k].Session].TotalProgress

\* a <= b as strings: a is a prefix of b
IsPrefix(a, b) == Len(a) <= Len(b) /\ SubSeq(b, 1, Len(a)) = a

\* the step is the pipeline of object o executing an UpdateSessionProgress
\* call, and the fragment it passes
UpdateCall(o) ==
    /\ \/ pipe[o].pc \in {"p77", "p86", "p105", "p174"}
       \/ pipe[o].pc = "cb125" /\ pipe[o].cur # ""
    /\ pipe'[o].pc # pipe[o].pc

Fragment(o) ==
    CASE pipe[o].pc = "p77" -> LabelInit
      [] pipe[o].pc = "p86" -> LabelConnecting
      [] pipe[o].pc = "p105" -> LabelThinking
      [] pipe[o].pc = "p174" -> LabelDone
      [] OTHER -> pipe[o].cur

\* C14: the total_progress of a record only grows by appending: every step
\* leaves the old value as a prefix of the new one, every UpdateSessionProgress
\* call on a registered session appends exactly the fragment passed, and no
\* other step changes the total_progress of an existing record.
C14_AppendOnly ==
    [][/\ \A o \in Objs :
            IsPrefix(heap[o].TotalProgress, heap'[o].TotalProgress)
       /\ \A o \in Objs :
            (UpdateCall(o) /\ Exists(heap[o].ID)) =>
               heap'[registry[heap[o].ID]].TotalProgress =
                  Append(heap[registry[heap[o].ID]].TotalProgress, Fragment(o))
       /\ \A o \in Objs :
            (o <= nextObj /\ heap'[o].TotalProgress # heap[o].TotalProgress)
               => \E p \in Objs : UpdateCall(p) /\ registry[heap[p].ID] = o]_vars

\* the phase labels and a model chunk were appended, in call order
C14_Witness ==
    \E o \in Objs :
       heap[o].TotalProgress =
          <<LabelInit, LabelConnecting, LabelThinking, "a", LabelDone>>

\* C15: an UpdateSessionProgress call made while the progress queue is full
\* completes at once: the pipeline moves on, the queue keeps its length, the
\* fragment is appended to total_progress; no queue ever holds more than its
\* capacity.
C15_UpdateNeverBlocks ==
    /\ [](\A o \in Objs : /\ heap[o].ProgressLen <= QueueCap
                          /\ heap[o].ResultLen <= QueueCap)
    /\ [][\A o \in Objs :
            (/\ pipe[o].pc \in {"cb125", "p174"}
             /\ pipe[o].pc = "cb125" => pipe[o].cur # ""
             /\ heap[o].ProgressStream = "open"
             /\ heap[o].ProgressLen = QueueCap
             /\ \/ pipe'[o] # pipe[o] \/ heap'[o] # heap[o])
            => /\ pipe'[o].pc = IF pipe[o].pc = "cb125" THEN "cb130" ELSE "p175"
               /\ heap'[o].ProgressLen = QueueCap
               /\ heap'[o].TotalProgress =
                     Append(heap[o].TotalProgress, Fragment(o))]_vars

\* the queue is full and total_progress holds more fragments than the queue
C15_Witness ==
    \E o \in Objs : /\ heap[o].ProgressLen = QueueCap
                    /\ Len(heap[o].TotalProgress) > QueueCap

\* the latest message of conversation c is an assistant message with this
\* content
LatestIs(c, result) ==
    /\ Len(store[c]) > 0
    /\ store[c][Len(store[c])] = Response(result)

\* C18: the success path appends its result to the conversation store only
\* when the latest stored message is not already that result: a step that
\* appends leaves a store whose latest message was different, and the
\* message appended is the result of the pipeline.
C18_IdempotentPersistence ==
    [][\A o \in Objs :
          (pipe[o].pc \in {"p158", "p169"} /\ pipe'[o].pc = "p174") =>
             LET c == heap[o].ConversationID
                 result == ReadWithDefault(pipe[o].buffer)
             IN IF LatestIs(c, result)
                THEN store' = store
                ELSE store' = [store EXCEPT ![c] = Append(@, Response(result))]
      ]_vars

(* ------------------------------ recovery ------------------------------- *)
\* the sessions rebuilt from the cache, by startup recovery or by a
\* reconnect: CreateSession gives a new session a fresh id
Rebuilt == {o \in Objs : heap[o].ID = RecoveredID}
Fresh(d) == BootTime - d.LastActivity < Hour
Expired(d) == ("Error" :> MsgExpired) @@ [d EXCEPT !.Status = SessionError]
Admitted(sid) ==
    /\ registry'[sid] \in Objs
    /\ registry'[sid] # registry[sid]
    /\ SessionData(heap'[registry'[sid]]) = cache[sid]
    /\ HasRuntime(heap'[registry'[sid]])

C17_RecoveryNeverRunsPipeline ==
    \A o \in Rebuilt :
        /\ pipe[o] = NoPipe
        /\ collected[o] = 0
        /\ reverted[o] = 0

\* a session admitted at startup, unfinished, with a client reconnected to it
C17_Witness ==
    \E o \in Rebuilt :
        /\ registry[RecoveredID] = o
        /\ heap[o].Status \in ActiveStatuses
        /\ obs[1].pc = "ready"
        /\ obs[1].Session = o

(* --------------------------- progress stream --------------------------- *)
\* the text of the progress events in a list of events, joined in order
RECURSIVE ProgressText(_)
ProgressText(events) ==
    IF events = <<>> THEN <<>>
    ELSE LET e == Head(events)
         IN (IF e.type = "progress" THEN e.progress ELSE <<>>)
                \o ProgressText(Tail(events))

\* C19: what a client of the progress stream received starts with the
\* status event, continues with progress and ping events only, and ends
\* with one completed event when the handler returned normally; the
\* completed event carries the total_progress of the session, and the text
\* of the progress events before it is a prefix of that.
C19_PushEventOrder ==
    \A k \in Observers :
        LET events == obs[k].events
            n == Len(events)
        IN n > 0 /\ events[1].type = "status"
            => /\ \A i \in 2 .. n :
                     events[i].type \in {"progress", "ping", "completed"}
               /\ \A i \in 1 .. n : events[i].type = "completed" => i = n
               /\ obs[k].pc = "ended" => events[n].type = "completed"
               /\ events[n].type = "completed"
                    => /\ obs[k].pc = "ended"
                       /\ events[n].progress = heap[obs[k].Session].TotalProgress
                       /\ IsPrefix(ProgressText(events), events[n].progress)

(* ------------------------------ the record ----------------------------- *)
\* C26: a record has an error only in status Error, a result or a charged
\* quota only in status Completed, and none of the three while Pending or
\* Processing.
C26_OutcomeFieldsMatchStatus ==
    \A o \in Objs :
        heap[o].Status # "none"
        => /\ heap[o].Error # "" => heap[o].Status = SessionError
           /\ (heap[o].Result # <<>> \/ heap[o].Quota # 0)
                  => heap[o].Status = SessionCompleted
           /\ IsActive(heap[o])
                  => /\ heap[o].Error = ""
                     /\ heap[o].Result = <<>>
                     /\ heap[o].Quota = 0

\* C27: a request the permission and subscription check denies has no
\* Session Record: the denial is never found in a pipeline or in the error
\* field of a record.
C27_DenialCreatesNoRecord ==
    \A o \in Objs :
        /\ pipe[o].msg = MsgPermission => ~Exists(o)
        /\ heap[o].Error # MsgPermission

\* C28: a record starts Pending and never becomes Pending again, becomes
\* Processing only from Pending and Completed only from Processing.
C28_StatusEdges ==
    [][\A o \in Objs :
          LET old == heap[o].Status
              new == heap'[o].Status
          IN new # old
             => /\ old = "none" => new = SessionPending
                /\ new = SessionPending => old = "none"
                /\ new = SessionProcessing => old = SessionPending
                /\ new = SessionCompleted => old = SessionProcessing]_vars

(* ------------------------------ snapshots ------------------------------ *)
\* the fields of a ChatSession without the tag json:"-"
PersistedFields ==
    {"ID", "UserID", "ConversationID", "Status", "Progress", "TotalProgress",
     "LastActivity", "CreatedAt", "CompletedAt", "Result", "Error", "Quota"}
Records == {o \in Objs : heap[o].Status # "none"}
Documents == {sid \in Ids : cache[sid].Status # "none"}

C25_CompletedAtSetOnce ==
    /\ [](/\ \A o \in Records :
               (heap[o].CompletedAt # Nil) <=> IsTerminal(heap[o])
          /\ \A sid \in Documents :
               ("CompletedAt" \in DOMAIN cache[sid])
                   <=> (cache[sid].Status \in TerminalStatuses))
    /\ [][\A o \in Objs :
            heap[o].CompletedAt # Nil
                => heap'[o].CompletedAt = heap[o].CompletedAt]_vars

(* ------------------------------ the sweep ------------------------------ *)
\* the ids a step deletes from the registry
Removed == {sid \in Ids : registry[sid] # 0 /\ registry'[sid] = 0}

C29_TouchOnEveryAccess ==
    [][/\ \A k \in Observers :
            PullReturns(k) => heap'[obs[k].Session].LastActivity = now
       /\ \A o \in Objs :
            heap'[o].LastActivity >= heap[o].LastActivity]_vars

\* a session admitted by startup recovery, still Pending or Processing, that
\* the sweep deleted from the registry
SweptUnfinished(o) ==
    /\ heap[o].ID = RecoveredID
    /\ IsActive(heap[o])
    /\ ~Exists(RecoveredID)
    /\ heap[o].CtxCancelled

\* C30: a session admitted by recovery, without a pipeline and cancelled
\* by nobody but the sweep, ends: once the sweep took it, its record and its
\* document show a terminal status and a client of its progress stream has
\* received the completed event.
C30_SweptSessionEnds ==
    \A o \in Objs :
        SweptUnfinished(o)
        ~> /\ IsTerminal(heap[o])
           /\ cache[RecoveredID].Status \in TerminalStatuses
           /\ obs[1].Session = o => obs[1].pc = "ended"

(* ------------------------------ durability ----------------------------- *)
\* every save goroutine started for the session of object o has finished
SavesFinished(o) ==
    /\ saves[o] = 0
    /\ \A d \in marshalled : d.ID # heap[o].ID

\* C22: when the pipeline of a session has ended with the record in a
\* terminal status and every save goroutine of the session has finished,
\* the document in the cache has the status and the total_progress of the
\* record.
C22_FinalSnapshot ==
    \A o \in Objs :
        (PipelineEnded(o) /\ IsTerminal(heap[o]) /\ SavesFinished(o))
        => /\ cache[heap[o].ID].Status = heap[o].Status
           /\ cache[heap[o].ID].TotalProgress = heap[o].TotalProgress

\* C23: whether the cache accepts a snapshot or not changes nothing in
\* memory.  A start that passed the duplicate check registers the new
\* Pending record and starts its pipeline, and a save goroutine that runs
\* changes nothing but the cache.
C23_BestEffortDurability ==
    [][/\ \A t \in Threads :
            (thr[t].op = "start" /\ thr'[t].op = "idle")
            => LET o == nextObj + 1
               IN /\ nextObj' = o
                  /\ registry'[o] = o
                  /\ heap'[o] = NewSession(o, thr[t].user, thr[t].conv)
                  /\ pipe'[o].pc = "spawned"
       /\ (\E o \in Objs : saves'[o] < saves[o])
            => UNCHANGED <<heap, registry, nextObj, pipe, thr, collected,
                           reverted, store, crashed>>]_vars

\* a session ran to Completed while the cache refused every snapshot of it
C23_Witness ==
    \E o \in Objs :
        /\ cacheClient
        /\ pipe[o].pc = "done"
        /\ heap[o].Status = SessionCompleted
        /\ saves[o] = 0
        /\ cache[heap[o].ID].Status = "none"


(* ------------------------------ lifetime ------------------------------- *)
\* C31: every session started by StartPersistentChat eventually has a
\* terminal status on its record, whether its pipeline runs undisturbed, the
\* timer of its context fires, or the sweep deletes it from the registry
\* before the pipeline has finished.
C31_BoundedLifetime ==
    \A o \in Objs : (pipe[o].pc = "spawned") ~> IsTerminal(heap[o])


(* --------------------------- chat and restart -------------------------- *)
\* the active records of a conversation after the step
ActiveAfter(u, c) ==
    {o \in Objs : /\ \E sid \in Ids : registry'[sid] = o
                  /\ heap'[o].UserID = u
                  /\ heap'[o].ConversationID = c
                  /\ IsActive(heap'[o])}

\* C32: PersistentChatHandler called while the conversation has an active
\* session.  With restart false it returns the id of that session and
\* neither it nor the reply creates a record or a pipeline.  With restart
\* true the existing session is cancelled (or has ended by itself), the
\* duplicate check of the start that follows passes, and when the new
\* session is created it is the only Pending or Processing record of the
\* conversation.
C32_HandlerWithActiveSession ==
    [][\A t \in Threads :
          /\ (thr'[t] # thr[t] /\ "reply" \in {thr[t].op, thr'[t].op})
             => /\ UNCHANGED <<heap, registry, nextObj, pipe>>
                /\ thr[t].op = "idle" =>
                      \E o \in ConversationSessions(thr'[t].user, thr'[t].conv) :
                          thr'[t].sid = heap[o].ID
          /\ (thr'[t] # thr[t] /\ thr[t].op = "prepare" /\ thr[t].sid # 0)
             => /\ thr'[t].op = "start"
                /\ IsTerminal(heap[registry[thr[t].sid]])
          /\ (thr[t].op = "start" /\ thr[t].sid # 0 /\ thr'[t].op = "idle")
             => ActiveAfter(thr[t].user, thr[t].conv) = {nextObj'}]_vars


(* ----------------------------- cancel API ------------------------------ *)
\* the fields a rejected cancel request must leave alone
Outcome(s) ==
    <<s.Status, s.Result, s.Error, s.CompletedAt, s.ProgressStream,
      s.ProgressLen, s.ResultStream, s.ResultLen>>

\* C33: a cancel request on an id that is not registered is answered "not
\* found", one by a caller who does not own the session "permission denied",
\* and one on a record whose status is terminal is rejected with an error;
\* the steps of a request that ends in one of these answers change neither
\* status, result, error, completed_at nor the queues of any record.
C33_RejectedCancelChangesNothing ==
    [][\A t \in Threads :
          /\ (thr[t].op = "idle" /\ thr'[t].op \in {"notfound", "denied", "api"})
             => /\ ~Exists(thr'[t].sid) => thr'[t].op = "notfound"
                /\ (Exists(thr'[t].sid)
                      /\ heap[registry[thr'[t].sid]].UserID # thr'[t].user)
                   => thr'[t].op = "denied"
                /\ \A o \in Objs : Outcome(heap'[o]) = Outcome(heap[o])
          /\ (thr[t].op = "api" /\ thr'[t].op # "api")
             => /\ (Exists(thr[t].sid) /\ IsTerminal(heap[registry[thr[t].sid]]))
                   => thr'[t].op = "rejected"
                /\ \A o \in Objs : Outcome(heap'[o]) = Outcome(heap[o])
          /\ (thr[t].op \in {"notfound", "denied", "rejected"}
                /\ thr'[t].op = "idle")
             => \A o \in Objs : Outcome(heap'[o]) = Outcome(heap[o])]_vars

\* the owner's cancel request on a session that has ended is being rejected
C33_Witness ==
    \E t \in Threads :
        /\ thr[t].op = "rejected"
        /\ Exists(thr[t].sid)
        /\ IsTerminal(heap[registry[thr[t].sid]])
        /\ heap[registry[thr[t].sid]].ProgressStream = "closed"


(* --------------------------- closed queues ----------------------------- *)
\* C34: no task sends on a closed queue.  When the pipeline of a session
\* executes an UpdateSessionProgress call the progress queue of the record
\* is not closed, and when the chunk callback sends the raw chunk the result
\* queue is not closed.
C34_NoSendOnClosedQueue ==
    [][\A o \in Objs :
          /\ (UpdateCall(o) /\ Exists(heap[o].ID))
             => heap[registry[heap[o].ID]].ProgressStream # "closed"
          /\ (pipe[o].pc = "cb130" /\ pipe'[o].pc # "cb130")
             => heap[o].ResultStream # "closed"]_vars


(* ---------------------------- one pipeline ----------------------------- *)
\* the goroutine of object o has executed its first statement and has not
\* ended
Executing(o) == pipe[o].pc \notin {"none", "spawned", "done", "escaped"}

\* C35: at most one pipeline is executing for a (user, conversation) pair
\* at any time.
C35_OnePipelinePerConversation ==
    \A u \in Users, c \in Convs :
        Cardinality({o \in Objs : /\ Executing(o)
                                  /\ heap[o].UserID = u
                                  /\ heap[o].ConversationID = c}) <= 1


(* ------------------------- memory and durable copy --------------------- *)
\* C36: the document of a registered session is never ahead of its record:
\* its total_progress is a prefix of the record's, and when its status is
\* terminal the record has that same status.
C36_DurableNeverAhead ==
    \A sid \in Ids :
        (Exists(sid) /\ cache[sid].Status # "none")
        => /\ IsPrefix(cache[sid].TotalProgress,
                       heap[registry[sid]].TotalProgress)
           /\ cache[sid].Status \in TerminalStatuses
                 => heap[registry[sid]].Status = cache[sid].Status


(* ------------------------------ admission ------------------------------ *)
\* C37: no step puts into the registry a Pending or Processing record whose
\* last_activity is more than one hour old, whether the step belongs to
\* startup recovery or to ReconnectToSession.
C37_StaleNeverAdmitted ==
    [][\A sid \in Ids :
          (/\ registry'[sid] # 0
           /\ registry'[sid] # registry[sid]
           /\ IsActive(heap'[registry'[sid]]))
          => ~(now' - heap'[registry'[sid]].LastActivity > Hour)]_vars


(* ------------------------------ the client ----------------------------- *)
\* every event the client received carries text of the session only
CleanEvents ==
    \A k \in Observers : \A i \in 1 .. Len(obs[k].events) :
        \A j \in 1 .. Len(obs[k].events[i].progress) :
            obs[k].events[i].progress[j] # Garbage

\* C38: when the client has received the completed event, the text it
\* passed to onProgress over all its connections, in delivery order, is the
\* total_progress carried by that event.  Stated for the runs in which the
\* server sent text of the session only.
C38_ClientDeduplicates ==
    LET cl == ClientAfter(MaxObservers)
    IN (cl.completed /\ CleanEvents) => cl.delivered = cl.final


(* ----------------------------- the singleton --------------------------- *)
\* C39: whatever callers enter GetSessionManager and InitSessionManager, and
\* in whatever order, one SessionManager is constructed, every call of
\* GetSessionManager returns it, recoverSessions is called at most once, and
\* the cache client bound to the manager is the one passed by the call that
\* ran the initialiser and never changes afterwards.
C39_Singleton ==
    /\ [](/\ once.instances <= 1
          /\ once.recoveries <= 1
          /\ \A t \in Threads :
                (once.call[t].pc = "idle" /\ once.call[t].kind = "get")
                => once.call[t].got = 1)
    /\ [][/\ once.instances > 0 => cacheClient' = cacheClient
          /\ once'.instances # once.instances
             => \E t \in Threads :
                   /\ once.call[t].pc = "do"
                   /\ once'.call[t].pc = "f"
                   /\ cacheClient' = (once.call[t].kind = "get"
                                        /\ once.call[t].cache)]_vars

\* two first calls at the same time: one caller is inside the initialiser
\* and has constructed the manager, the other, with another cache argument,
\* waits in Do
C39_Witness ==
    \E t, w \in Threads :
        /\ once.call[t].pc = "f"
        /\ once.call[w].pc = "do"
        /\ once.call[t].cache # once.call[w].cache
        /\ once.instances = 1

====
